---- MODULE Spec2Model ----
(***************************************************************************)
(* Auto Dimmer: the content script's control loop (src/src/content.ts),    *)
(* its transition engine (src/src/utils/animation.ts), the dim policy      *)
(* (src/src/utils/brightness.ts, settings.ts, patterns.ts), the overlay    *)
(* (utils/overlay.ts, held in src/src/types.ts) and the storage helpers    *)
(* (utils/storage.ts, held in src/unnamed/part_000).                       *)
(*                                                                         *)
(* Numbers.  Levels, brightness, intensities and thresholds are the        *)
(* program's floats in [0,1]; here they are fixed-point integers with      *)
(* Unit = 1.0, so 0.03 is 300 and 0.05 is 500.  Products are formed in the *)
(* order the code forms them and a division rounds down.  Sample values    *)
(* are tenths and at most MaxSamples + 1 samples are taken, which keeps    *)
(* the smoothing recurrence exact.  JavaScript null is the empty sequence  *)
(* and a present value v is <<v>>.                                         *)
(***************************************************************************)
EXTENDS Integers, Sequences, FiniteSets, TLC

VARIABLES
    settings,            \* content.ts:28   the loop's configuration snapshot
    animationState,      \* content.ts:29   [frameId, currentLevel, targetLevel]
    sampleIntervalId,    \* content.ts:30   null or the handle of the periodic timer
    lastBrightness,      \* content.ts:31
    smoothedBrightness,  \* content.ts:32
    lastAppliedDim,      \* content.ts:33
    isChecking,          \* content.ts:34
    overlay,             \* overlay.ts      the overlay element: attached?, opacity
    rafCallbacks,        \* the browser's scheduled animation-frame callbacks
    intervals,           \* the browser's live setInterval handles
    storedSettings,      \* chrome.storage.sync[autoDimmerSettings]
    siteStore,           \* chrome.storage.local[siteState_<hostname>]
    now,                 \* Date.now(), in ms
    pc,                  \* where start() is: "init", "loadSettings", "loadSiteState", "running"
    pendingReloads,      \* loadSettings() promises of settingsUpdated handlers in flight
    pendingSiteState,    \* what the storage read start() awaits found stored
    scroll,              \* content.ts:215  scrollTimeout, the browser's pending timeouts, history
    bg,                  \* background.ts:20  the request the background script is serving
    sync,                \* background.ts:29  saveSettings writes, broadcasts and reloads in flight
    calc,                \* the last call of a utility function: its name, arguments, result
    nSamples,            \* brightness samples taken so far
    nCalls,              \* direct engine requests made so far (manualDim, API calls)
    nSaves,              \* saveSettings requests made so far
    hist,                \* history: the first sample, and what has held of the run so far
    ev                   \* history: what the last step did

vars == <<settings, animationState, sampleIntervalId, lastBrightness,
          smoothedBrightness, lastAppliedDim, isChecking, overlay, rafCallbacks,
          intervals, storedSettings, siteStore, now, pc, pendingReloads,
          pendingSiteState, scroll, bg, sync, calc, nSamples, nCalls, nSaves,
          hist, ev>>

loopVars == <<settings, sampleIntervalId, lastBrightness, smoothedBrightness,
              lastAppliedDim, isChecking, intervals, storedSettings, siteStore,
              now, pc, pendingReloads, pendingSiteState, scroll, sync,
              nSamples, nSaves, hist>>

----------------------------------------------------------------------------
(* Numbers *)

\* 1.0 in fixed point.
Unit == 100 * 100

Null == <<>>
Some(v) == <<v>>
Val(o) == o[1]

Abs(x) == IF x < 0 THEN -x ELSE x
Min(a, b) == IF a < b THEN a ELSE b
Max(a, b) == IF a > b THEN a ELSE b

\* Bounds of the model.
MaxSamples == 2
MaxCalls == 3
MaxManual == 1
MaxPending == 2
MaxSaves == 1
MaxTimerSaves == 2
MaxTime == 1500
MaxRequests == 2
MaxSyncSaves == 2
MaxLen == 3
MaxPatterns == 2
MaxElements == 3

----------------------------------------------------------------------------
(* utils/overlay.ts *)

\* A plausible slip: Math.min and Math.max are exchanged.
clampSwapped(value, min, max) == Min(min, Max(max, value))

\* Math.max(min, Math.min(max, value))
clamp(value, min, max) == Max(min, Min(max, value))

\* A freshly created overlay element: attached, opacity 0.
getOverlay(ov) == IF ov.attached THEN ov ELSE [attached |-> TRUE, opacity |-> 0]

\* A plausible slip: the level is written as it comes.
applyDimLevelUnclamped(ov, level) ==
    [getOverlay(ov) EXCEPT !.opacity = level]

applyDimLevel(ov, level) ==
    [getOverlay(ov) EXCEPT !.opacity = clamp(level, 0, Unit)]

removeOverlay(ov) == [attached |-> FALSE, opacity |-> 0]

\* The same three functions on the document itself.  d holds the module's
\* overlayElement (Null or an element), the elements with the overlay's id
\* attached to the document, every created element's style, and the number
\* of elements created; an element is the number of its creation.
EmptyDocument ==
    [overlayElement |-> Null, doc |-> {}, style |-> <<>>, created |-> 0]

\* document.getElementById: the first attached element with the id
getElementById(d) ==
    IF d.doc = {}
    THEN Null
    ELSE Some(CHOOSE e \in d.doc : \A f \in d.doc : e <= f)

\* document.createElement("div") with the cssText of lines 96-107, appended
createOverlayElement(d) ==
    LET e == d.created + 1 IN
    [d EXCEPT !.created = e,
              !.doc = @ \cup {e},
              !.style = Append(@, [opacity |-> 0, pointerEvents |-> "none"]),
              !.overlayElement = Some(e)]

\* A plausible slip: neither the cached element nor the document is
\* consulted, an element is created on every call.
getOverlayElementAlwaysCreates(d) ==
    [ret |-> d.created + 1, st |-> createOverlayElement(d)]

\* getOverlay: the element returned and the document after the call
getOverlayElement(d) ==
    IF d.overlayElement # Null /\ Val(d.overlayElement) \in d.doc
    THEN [ret |-> Val(d.overlayElement), st |-> d]
    ELSE LET found == getElementById(d) IN
         IF found # Null
         THEN [ret |-> Val(found), st |-> [d EXCEPT !.overlayElement = found]]
         ELSE [ret |-> d.created + 1, st |-> createOverlayElement(d)]

\* removeOverlay
removeOverlayElement(d) ==
    LET d1 == IF d.overlayElement # Null
              THEN [d EXCEPT !.doc = @ \ {Val(d.overlayElement)},
                             !.overlayElement = Null]
              ELSE d
        existing == getElementById(d1)
    IN  IF existing # Null
        THEN [d1 EXCEPT !.doc = @ \ {Val(existing)}]
        ELSE d1

\* applyDimLevel
applyDimLevelToElement(d, level) ==
    LET got == getOverlayElement(d) IN
    [got.st EXCEPT !.style[got.ret].opacity = clamp(level, 0, Unit)]

----------------------------------------------------------------------------
(* utils/animation.ts.  The engine's operations act on a machine m:        *)
(*   st     the AnimationState                                             *)
(*   raf    the scheduled frame callbacks, each the closure `animate`      *)
(*          of one animateDimLevel call: its id, the captured startLevel   *)
(*          and duration, the elapsed time of its latest frame (Null       *)
(*          before the first), and whether a later request was accepted    *)
(*          since it was created (stale)                                   *)
(*   ov     the overlay, written by onUpdate = applyCurrentDimLevel        *)
(*   upd    the levels onUpdate was invoked with, in order                 *)
(*   sched, canc   requestAnimationFrame / cancelAnimationFrame calls      *)
(*   req    calls of animateDimLevel / setDimLevelImmediate                *)
(***************************************************************************)

ANIMATION_DEADBAND == 500

createAnimationState == [frameId |-> Null, currentLevel |-> 0, targetLevel |-> 0]

Machine(st, raf, ov) ==
    [st |-> st, raf |-> raf, ov |-> ov, upd |-> <<>>, sched |-> 0, canc |-> 0,
     req |-> 0]

\* content.ts applyCurrentDimLevel: the onUpdate every engine call is given
applyCurrentDimLevel(m, level) ==
    [m EXCEPT !.ov = applyDimLevel(m.ov, level), !.upd = Append(m.upd, level)]

\* requestAnimationFrame hands out an id no scheduled callback has
NewFrameId(m) ==
    CHOOSE i \in 1..(Cardinality(m.raf) + 2) :
        /\ \A cb \in m.raf : cb.id # i
        /\ m.st.frameId # Some(i)
        /\ \A j \in 1..(i - 1) : (\E cb \in m.raf : cb.id = j) \/ m.st.frameId = Some(j)

requestAnimationFrame(m, cb) ==
    LET id == NewFrameId(m) IN
    [m EXCEPT !.raf = @ \cup {[cb EXCEPT !.id = id]},
              !.st.frameId = Some(id),
              !.sched = @ + 1]

\* A plausible slip: the handle is forgotten but the browser callback stays.
cancelAnimationKeepsCallback(m) ==
    IF m.st.frameId # Null THEN [m EXCEPT !.st.frameId = Null] ELSE m

cancelAnimation(m) ==
    IF m.st.frameId # Null
    THEN [m EXCEPT !.raf = {cb \in @ : cb.id # Val(m.st.frameId)},
                   !.st.frameId = Null,
                   !.canc = @ + 1]
    ELSE m

\* The skip test of animateDimLevel (line 50), on the clamped target.
deadbandSkips01(newTarget, targetLevel) == Abs(newTarget - targetLevel) < 100

deadbandSkips(newTarget, targetLevel) ==
    Abs(newTarget - targetLevel) < ANIMATION_DEADBAND

\* A plausible slip: the running animation is cancelled before the skip test.
animateDimLevelCancelsFirst(m, targetLevel, duration) ==
    LET newTarget == clamp(targetLevel, 0, Unit)
        m0 == cancelAnimation([m EXCEPT !.req = @ + 1])
    IN  IF deadbandSkips(newTarget, m0.st.targetLevel)
        THEN m0
        ELSE requestAnimationFrame([m0 EXCEPT !.st.targetLevel = newTarget],
                 [id |-> 0, startLevel |-> clamp(m0.st.currentLevel, 0, Unit),
                  duration |-> duration, elapsed |-> Null, stale |-> FALSE])

animateDimLevel(m, targetLevel, duration) ==
    LET newTarget == clamp(targetLevel, 0, Unit)
        m0 == [m EXCEPT !.req = @ + 1]
    IN  IF deadbandSkips(newTarget, m0.st.targetLevel)
        THEN m0
        ELSE LET m1 == [m0 EXCEPT !.st.targetLevel = newTarget]
                 m2 == cancelAnimation(m1)
                 \* history: callbacks that outlive this request are stale
                 m3 == [m2 EXCEPT !.raf = {[cb EXCEPT !.stale = TRUE] : cb \in @}]
                 startLevel == clamp(m3.st.currentLevel, 0, Unit)
             IN  requestAnimationFrame(m3,
                     [id |-> 0, startLevel |-> startLevel, duration |-> duration,
                      elapsed |-> Null, stale |-> FALSE])

\* Math.min(elapsed / duration, 1)
progressOf(elapsed, duration) == Min((elapsed * Unit) \div duration, Unit)

\* A plausible slip: a test that never sees the last frame as the last.
animateFinishedNever(progress) == FALSE

\* `progress < 1` fails
animateFinished(progress) == ~(progress < Unit)

\* The closure `animate`, run by the browser with the frame's time; cb has
\* already left the browser's queue.
animate(m, cb, elapsed) ==
    LET progress == progressOf(elapsed, cb.duration)
        level == clamp(cb.startLevel
                         + ((m.st.targetLevel - cb.startLevel) * progress) \div Unit,
                       0, Unit)
        m1 == applyCurrentDimLevel([m EXCEPT !.st.currentLevel = level], level)
    IN  IF ~animateFinished(progress)
        THEN requestAnimationFrame(m1, [cb EXCEPT !.elapsed = Some(elapsed)])
        ELSE [m1 EXCEPT !.st.frameId = Null]

\* A plausible slip: the scheduled frame is left to run.
setDimLevelImmediateNoCancel(m, level) ==
    LET m1 == [m EXCEPT !.req = @ + 1]
        c == clamp(level, 0, Unit)
    IN  applyCurrentDimLevel([m1 EXCEPT !.st.currentLevel = c, !.st.targetLevel = c], c)

setDimLevelImmediate(m, level) ==
    LET m1 == cancelAnimation([m EXCEPT !.req = @ + 1])
        c == clamp(level, 0, Unit)
    IN  applyCurrentDimLevel([m1 EXCEPT !.st.currentLevel = c, !.st.targetLevel = c], c)

\* The times a frame of an animation of the given duration is delivered at,
\* measured from the animation's start: halfway and at the end; where the
\* engine is driven alone, also at the very start and past the end.
FrameTimes(duration) == {duration \div 2, duration}
EngineFrameTimes(duration) == {0, duration \div 2, duration, 2 * duration}

----------------------------------------------------------------------------
(* History of the last step. *)

TheMachine == Machine(animationState, rafCallbacks, overlay)

Commit(m) ==
    /\ animationState' = m.st
    /\ rafCallbacks' = m.raf
    /\ overlay' = m.ov

\* A step that ran no cycle.
NoCycle ==
    [branch |-> "none", raw |-> 0, target |-> 0, saved |-> FALSE, key |-> <<>>,
     prevApplied |-> 0, prevSmoothed |-> Null, prevTarget |-> 0]

\* What a step leaves in the history: its kind and argument, the calls it
\* made (onUpdate, requestAnimationFrame, cancelAnimationFrame, the engine's
\* two requests), whether the frame callback it ran was stale, and the cycle
\* it ran: the branch taken, the raw sample, the computed target, whether
\* the site state was saved, and lastAppliedDim, smoothedBrightness and the
\* engine's targetLevel as the cycle found them.
Event(kind, level, m, cyc) ==
    [kind |-> kind, level |-> level, upd |-> m.upd, sched |-> m.sched,
     canc |-> m.canc, req |-> m.req, stale |-> FALSE, cyc |-> cyc]

----------------------------------------------------------------------------
(* The engine driven directly, as its callers may drive it. *)

EngineLevels == {-5000, 0, 400, 5000, 5200, 10000, 15000}
EngineDurations == {500, 1000}

CallAnimateDimLevel(level, duration) ==
    /\ nCalls < MaxCalls
    /\ Cardinality(rafCallbacks) < MaxPending
    /\ LET m == animateDimLevel(TheMachine, level, duration) IN
       /\ Commit(m)
       /\ ev' = Event("animateDimLevel", level, m, NoCycle)
    /\ nCalls' = nCalls + 1
    /\ UNCHANGED <<loopVars, bg, calc>>

CallSetDimLevelImmediate(level) ==
    /\ nCalls < MaxCalls
    /\ LET m == setDimLevelImmediate(TheMachine, level) IN
       /\ Commit(m)
       /\ ev' = Event("setDimLevelImmediate", level, m, NoCycle)
    /\ nCalls' = nCalls + 1
    /\ UNCHANGED <<loopVars, bg, calc>>

CallCancelAnimation ==
    /\ LET m == cancelAnimation(TheMachine) IN
       /\ Commit(m)
       /\ ev' = Event("cancelAnimation", 0, m, NoCycle)
    /\ UNCHANGED <<loopVars, bg, calc, nCalls>>

\* The browser delivers an animation frame: it takes a scheduled callback
\* off its queue and runs it with a time later than the callback's last.
FrameAt(cb, t) ==
    /\ IF cb.elapsed = Null THEN TRUE ELSE t > Val(cb.elapsed)
    /\ LET m0 == [TheMachine EXCEPT !.raf = @ \ {cb}]
           m == animate(m0, cb, t)
       IN  /\ Commit(m)
           /\ ev' = [Event("frame", t, m, NoCycle) EXCEPT !.stale = cb.stale]
    /\ UNCHANGED <<loopVars, bg, calc, nCalls>>

Frame ==
    \E cb \in rafCallbacks : \E t \in FrameTimes(cb.duration) : FrameAt(cb, t)

EngineFrame ==
    \E cb \in rafCallbacks : \E t \in EngineFrameTimes(cb.duration) : FrameAt(cb, t)

----------------------------------------------------------------------------
(* utils/patterns.ts.  A string is a sequence of characters. *)

\* String.prototype.includes
includes(s, p) ==
    \E i \in 0..(Len(s) - Len(p)) : SubSeq(s, i + 1, i + Len(p)) = p

\* A plausible slip: only the hostname is searched for the pattern.
matchesPatternOneWay(hostname, pattern) ==
    IF hostname = <<>> \/ pattern = <<>>
    THEN FALSE
    ELSE includes(hostname, pattern)

matchesPattern(hostname, pattern) ==
    IF hostname = <<>> \/ pattern = <<>>
    THEN FALSE
    ELSE includes(hostname, pattern) \/ includes(pattern, hostname)

matchesAnyPattern(hostname, patterns) ==
    \E k \in 1..Len(patterns) : matchesPattern(hostname, patterns[k])

\* window.location.hostname of the page the script is attached to
getHostname == <<"a", "b">>

----------------------------------------------------------------------------
(* utils/settings.ts *)

\* A plausible slip: the spread is written the other way round, so the
\* global fields win.
getEffectiveSettingsGlobalWins(s, hostname) ==
    IF hostname \in DOMAIN s.siteSettings
    THEN LET siteOverride == s.siteSettings[hostname] IN
         [f \in DOMAIN s \cup DOMAIN siteOverride |->
             IF f \in DOMAIN s THEN s[f] ELSE siteOverride[f]]
    ELSE s

\* { ...settings, ...siteOverride }
getEffectiveSettings(s, hostname) ==
    IF hostname \in DOMAIN s.siteSettings
    THEN LET siteOverride == s.siteSettings[hostname] IN
         [f \in DOMAIN s \cup DOMAIN siteOverride |->
             IF f \in DOMAIN siteOverride THEN siteOverride[f] ELSE s[f]]
    ELSE s

isBlacklisted(s, hostname) == matchesAnyPattern(hostname, s.blacklist)

\* Array.prototype.includes
arrayIncludes(list, x) == \E k \in 1..Len(list) : list[k] = x

\* list.filter((_, i) => i !== index), from position i (0-based) on
RECURSIVE filterNotIndex(_, _, _)
filterNotIndex(list, index, i) ==
    IF i >= Len(list)
    THEN <<>>
    ELSE (IF i # index THEN <<list[i + 1]>> ELSE <<>>)
             \o filterNotIndex(list, index, i + 1)

\* A plausible slip: the hostname is appended without looking for it.
addToBlacklistAlways(s, hostname) ==
    [s EXCEPT !.blacklist = Append(@, hostname)]

addToBlacklist(s, hostname) ==
    IF arrayIncludes(s.blacklist, hostname)
    THEN s
    ELSE [s EXCEPT !.blacklist = Append(@, hostname)]

removeFromBlacklist(s, index) ==
    [s EXCEPT !.blacklist = filterNotIndex(@, index, 0)]

addToWhitelist(s, hostname) ==
    IF arrayIncludes(s.whitelist, hostname)
    THEN s
    ELSE [s EXCEPT !.whitelist = Append(@, hostname)]

removeFromWhitelist(s, index) ==
    [s EXCEPT !.whitelist = filterNotIndex(@, index, 0)]

isWhitelisted(s, hostname) == matchesAnyPattern(hostname, s.whitelist)

----------------------------------------------------------------------------
(* utils/brightness.ts *)

\* A plausible slip: the threshold itself already triggers.
calculateDimAmountAtThreshold(brightness, threshold, maxIntensity, dynamicMode) ==
    IF brightness < threshold
    THEN 0
    ELSE IF ~dynamicMode
    THEN maxIntensity
    ELSE LET scaleFactor == IF Unit - threshold > 0
                            THEN ((brightness - threshold) * Unit)
                                     \div (Unit - threshold)
                            ELSE Unit
         IN  (maxIntensity * scaleFactor) \div Unit

\* A plausible slip: dynamicMode is not consulted.
calculateDimAmountAlwaysScaled(brightness, threshold, maxIntensity, dynamicMode) ==
    IF brightness <= threshold
    THEN 0
    ELSE LET scaleFactor == IF Unit - threshold > 0
                            THEN ((brightness - threshold) * Unit)
                                     \div (Unit - threshold)
                            ELSE Unit
         IN  (maxIntensity * scaleFactor) \div Unit

\* A plausible slip: the excess is scaled by the whole range, not by the
\* range above the threshold.
calculateDimAmountWholeRange(brightness, threshold, maxIntensity, dynamicMode) ==
    IF brightness <= threshold
    THEN 0
    ELSE IF ~dynamicMode
    THEN maxIntensity
    ELSE (maxIntensity * (brightness - threshold)) \div Unit

calculateDimAmount(brightness, threshold, maxIntensity, dynamicMode) ==
    IF brightness <= threshold
    THEN 0
    ELSE IF ~dynamicMode
    THEN maxIntensity
    ELSE LET brightnessOverThreshold == brightness - threshold
             maxOverThreshold == Unit - threshold
             scaleFactor == IF maxOverThreshold > 0
                            THEN (brightnessOverThreshold * Unit) \div maxOverThreshold
                            ELSE Unit
         IN  (maxIntensity * scaleFactor) \div Unit

\* What samplePageBrightness may return: the page decides.
RawLevels == {0, 8000, 9000}

----------------------------------------------------------------------------
(* utils/storage.ts *)

DEFAULT_SETTINGS ==
    [enabled |-> TRUE, dimIntensity |-> 3000, brightnessThreshold |-> 6000,
     dynamicMode |-> TRUE, smoothing |-> TRUE, smoothingDuration |-> 500,
     siteSettings |-> <<>>, blacklist |-> <<>>, whitelist |-> <<>>]

STATE_MAX_AGE_MS == 24 * 60 * 60 * 1000

\* Date.now() when the script is injected.
StartTime == 2 * STATE_MAX_AGE_MS

\* { ...DEFAULT_SETTINGS, ...result[SETTINGS_KEY] }, or the defaults
loadSettings(stored) ==
    IF stored # Null
    THEN [f \in DOMAIN DEFAULT_SETTINGS |->
             IF f \in DOMAIN Val(stored) THEN Val(stored)[f] ELSE DEFAULT_SETTINGS[f]]
    ELSE DEFAULT_SETTINGS

\* A plausible slip: a state exactly 24 hours old still counts as fresh.
loadSiteStateInclusive(store, time) ==
    IF store # Null /\ time - Val(store).timestamp <= STATE_MAX_AGE_MS
    THEN store
    ELSE Null

loadSiteState(store, time) ==
    IF store # Null /\ time - Val(store).timestamp < STATE_MAX_AGE_MS
    THEN store
    ELSE Null

\* A plausible slip: the brightness is left out of the saved state.
createSiteStateNoBrightness(dimLevel, brightness, time) ==
    [lastDimLevel |-> dimLevel, lastBrightness |-> Null, timestamp |-> time]

createSiteState(dimLevel, brightness, time) ==
    [lastDimLevel |-> dimLevel, lastBrightness |-> brightness, timestamp |-> time]

\* chrome.storage.local.set under siteState_<hostname>; the model keeps the
\* entry of the page's own hostname, and a write under another key leaves
\* it alone.
saveSiteState(L, hostname, state) ==
    IF hostname = getHostname THEN [L EXCEPT !.siteStore = Some(state)] ELSE L

----------------------------------------------------------------------------
(* content.ts.  The loop's operations act on a loop state L: the module's  *)
(* variables, the engine's machine m, the stored site state and the clock, *)
(* and cyc, the record of the cycle run in this step.                      *)

DEFAULT_TRANSITION_DURATION == 500
BRIGHTNESS_SMOOTHING == 3000
DIM_CHANGE_THRESHOLD == 300

LoopState ==
    [settings |-> settings, m |-> TheMachine,
     sampleIntervalId |-> sampleIntervalId, intervals |-> intervals,
     lastBrightness |-> lastBrightness, smoothedBrightness |-> smoothedBrightness,
     lastAppliedDim |-> lastAppliedDim, isChecking |-> isChecking,
     siteStore |-> siteStore, now |-> now, scroll |-> scroll, cyc |-> NoCycle]

\* A plausible slip: the smoothing setting is not consulted.
setDimLevelAlwaysImmediate(L, level) ==
    [L EXCEPT !.m = setDimLevelImmediate(@, level)]

setDimLevel(L, level) ==
    LET hostname == getHostname
        effectiveSettings == getEffectiveSettings(L.settings, hostname)
    IN  IF effectiveSettings.smoothing
        THEN LET duration == IF effectiveSettings.smoothingDuration # 0
                             THEN effectiveSettings.smoothingDuration
                             ELSE DEFAULT_TRANSITION_DURATION
             IN  [L EXCEPT !.m = animateDimLevel(@, level, duration)]
        ELSE [L EXCEPT !.m = setDimLevelImmediate(@, level)]

\* A plausible slip: the manual level is recorded as the applied one.
onManualDimRecords(L, level) ==
    [setDimLevel(L, level) EXCEPT !.lastAppliedDim = level]

\* the manualDim branch of the message listener: lines 193-195
onManualDim(L, level) == setDimLevel(L, level)

\* A plausible slip: the weights of the new and the old reading swapped.
smoothBrightnessSwapped(rawBrightness, smoothed) ==
    IF smoothed = Null
    THEN rawBrightness
    ELSE ((Unit - BRIGHTNESS_SMOOTHING) * rawBrightness
            + BRIGHTNESS_SMOOTHING * Val(smoothed)) \div Unit

\* lines 84-91
smoothBrightness(rawBrightness, smoothed) ==
    IF smoothed = Null
    THEN rawBrightness
    ELSE (BRIGHTNESS_SMOOTHING * rawBrightness
            + (Unit - BRIGHTNESS_SMOOTHING) * Val(smoothed)) \div Unit

\* A plausible slip: the threshold is tested before the whitelist.
dimAmountThresholdFirst(s, effectiveSettings, hostname, smoothed) ==
    IF smoothed <= effectiveSettings.brightnessThreshold
    THEN 0
    ELSE IF isWhitelisted(s, hostname)
    THEN effectiveSettings.dimIntensity
    ELSE calculateDimAmount(smoothed, effectiveSettings.brightnessThreshold,
                            effectiveSettings.dimIntensity,
                            effectiveSettings.dynamicMode)

\* lines 93-105
dimAmountOf(s, effectiveSettings, hostname, smoothed) ==
    IF isWhitelisted(s, hostname)
    THEN effectiveSettings.dimIntensity
    ELSE calculateDimAmount(smoothed, effectiveSettings.brightnessThreshold,
                            effectiveSettings.dimIntensity,
                            effectiveSettings.dynamicMode)

\* A plausible slip: the engine's deadband used for the loop's threshold.
changeIsSignificantDeadband(dimAmount, last) ==
    Abs(dimAmount - last) >= ANIMATION_DEADBAND

\* line 108
changeIsSignificant(dimAmount, last) ==
    Abs(dimAmount - last) >= DIM_CHANGE_THRESHOLD

\* Whether a cycle under settings s gets as far as sampling.
Samples(s) ==
    /\ getEffectiveSettings(s, getHostname).enabled
    /\ ~isBlacklisted(s, getHostname)

\* samplePageBrightness reads the DOM; the value that stands for a read
\* that throws.
SampleThrows == 0 - 1

\* A plausible slip: the guard is released on the return paths only.
finallyBlockOnReturnOnly(L) ==
    IF L.cyc.branch = "threw" THEN L ELSE [L EXCEPT !.isChecking = FALSE]

\* finally { isChecking = false; }
finallyBlock(L) == [L EXCEPT !.isChecking = FALSE]

\* A plausible slip: the disabled branch also forgets the samples.
disabledBranchForgetsSamples(L) ==
    IF L.lastAppliedDim # 0
    THEN [setDimLevel(L, 0) EXCEPT !.lastAppliedDim = 0,
                                   !.lastBrightness = Null,
                                   !.smoothedBrightness = Null]
    ELSE L

\* lines 71-78: the disabled-or-blacklisted branch, before any sampling
disabledBranch(L) ==
    IF L.lastAppliedDim # 0
    THEN [setDimLevel(L, 0) EXCEPT !.lastAppliedDim = 0]
    ELSE L

checkAndDim(L, rawBrightness) ==
    IF L.isChecking
    THEN [L EXCEPT !.cyc = [NoCycle EXCEPT !.branch = "busy"]]
    ELSE
    LET L0 == [L EXCEPT !.isChecking = TRUE]
        hostname == getHostname
        effectiveSettings == getEffectiveSettings(L0.settings, hostname)
        entry == [NoCycle EXCEPT !.prevApplied = L0.lastAppliedDim,
                                 !.prevSmoothed = L0.smoothedBrightness,
                                 !.prevTarget = L0.m.st.targetLevel]
    IN  finallyBlock(
        IF ~effectiveSettings.enabled \/ isBlacklisted(L0.settings, hostname)
        THEN [disabledBranch(L0) EXCEPT !.cyc = [entry EXCEPT !.branch = "off"]]
        ELSE IF rawBrightness = SampleThrows
        THEN [L0 EXCEPT !.cyc = [entry EXCEPT !.branch = "threw"]]
        ELSE LET smoothed == smoothBrightness(rawBrightness, L0.smoothedBrightness)
                 L1 == [L0 EXCEPT !.lastBrightness = Some(rawBrightness),
                                  !.smoothedBrightness = Some(smoothed)]
                 dimAmount == dimAmountOf(L0.settings, effectiveSettings, hostname, smoothed)
                 cyc == [entry EXCEPT !.branch = "sample", !.raw = rawBrightness,
                                      !.target = dimAmount]
             IN  IF changeIsSignificant(dimAmount, L0.lastAppliedDim)
                 THEN LET L2 == [setDimLevel(L1, dimAmount) EXCEPT
                                     !.lastAppliedDim = dimAmount]
                          state == createSiteState(L2.m.st.currentLevel,
                                                   L2.lastBrightness, L2.now)
                      IN  [saveSiteState(L2, hostname, state) EXCEPT
                               !.cyc = [cyc EXCEPT !.saved = TRUE,
                                                   !.key = hostname]]
                 ELSE [L1 EXCEPT !.cyc = cyc])

\* setInterval hands out a handle no live timer has
setInterval(L) ==
    LET id == CHOOSE i \in 1..(Cardinality(L.intervals) + 1) :
                  /\ i \notin L.intervals
                  /\ \A j \in 1..(i - 1) : j \in L.intervals
    IN  [L EXCEPT !.intervals = @ \cup {id}, !.sampleIntervalId = Some(id)]

clearInterval(L) ==
    [L EXCEPT !.intervals = @ \ {Val(L.sampleIntervalId)}, !.sampleIntervalId = Null]

\* start(), after `await loadSiteState(hostname)`: lines 130-144
startAfterLoads(L, stored, rawBrightness) ==
    LET hostname == getHostname
        savedState == loadSiteState(stored, L.now)
        L1 == IF savedState # Null /\ Val(savedState).lastDimLevel > 0
              THEN LET lvl == Val(savedState).lastDimLevel IN
                   [L EXCEPT !.m = applyCurrentDimLevel(
                                       [@ EXCEPT !.st.currentLevel = lvl,
                                                 !.st.targetLevel = lvl], lvl),
                             !.lastAppliedDim = lvl]
              ELSE L
        L2 == checkAndDim(L1, rawBrightness)
        effectiveSettings == getEffectiveSettings(L2.settings, hostname)
    IN  IF effectiveSettings.dynamicMode THEN setInterval(L2) ELSE L2

\* the settingsUpdated handler's continuation: lines 165-179
onSettingsLoaded(L, newSettings, rawBrightness) ==
    LET L1 == checkAndDim([L EXCEPT !.settings = newSettings], rawBrightness)
        hostname == getHostname
        effectiveSettings == getEffectiveSettings(L1.settings, hostname)
        L2 == IF L1.sampleIntervalId # Null THEN clearInterval(L1) ELSE L1
    IN  IF effectiveSettings.dynamicMode THEN setInterval(L2) ELSE L2

\* The scroll listener's state: the handle scrollTimeout (undefined at
\* first), the browser's pending timeouts as [id, due], and history: the
\* time of the last scroll event, the bursts begun (scroll events that
\* found no timeout pending) and the re-checks the timeouts have run.
SCROLL_DEBOUNCE == 500

NoScroll == [timeout |-> Null, pending |-> {}, last |-> Null, bursts |-> 0, checks |-> 0]

clearTimeout(sc) ==
    [sc EXCEPT !.pending = {t \in @ : t.id # Val(sc.timeout)}]

setTimeout(sc, due) ==
    LET id == CHOOSE i \in 1..(Cardinality(sc.pending) + 2) :
                  /\ \A t \in sc.pending : t.id # i
                  /\ sc.timeout # Some(i)
    IN  [sc EXCEPT !.pending = @ \cup {[id |-> id, due |-> due]},
                   !.timeout = Some(id)]

\* A plausible slip: the pending timeout is not cleared.
onScrollNoClear(L) ==
    LET sc == [L.scroll EXCEPT !.last = Some(L.now),
                               !.bursts = IF L.scroll.pending = {} THEN @ + 1 ELSE @]
    IN  [L EXCEPT !.scroll = setTimeout(sc, L.now + SCROLL_DEBOUNCE)]

\* the scroll listener
onScroll(L) ==
    LET sc == [L.scroll EXCEPT !.last = Some(L.now),
                               !.bursts = IF L.scroll.pending = {} THEN @ + 1 ELSE @]
        sc1 == IF sc.timeout # Null THEN clearTimeout(sc) ELSE sc
    IN  [L EXCEPT !.scroll = setTimeout(sc1, L.now + SCROLL_DEBOUNCE)]

\* A plausible slip: the transition in flight is left running.
stopWithoutCancel(L) ==
    LET L1 == IF L.sampleIntervalId # Null THEN clearInterval(L) ELSE L
    IN  [L1 EXCEPT !.m.ov = removeOverlay(@)]

stop(L) ==
    LET L1 == IF L.sampleIntervalId # Null THEN clearInterval(L) ELSE L
        L2 == [L1 EXCEPT !.m = cancelAnimation(@)]
    IN  [L2 EXCEPT !.m.ov = removeOverlay(@)]

----------------------------------------------------------------------------
(* Steps of the content script. *)

CommitLoop(L) ==
    /\ settings' = L.settings
    /\ Commit(L.m)
    /\ sampleIntervalId' = L.sampleIntervalId
    /\ intervals' = L.intervals
    /\ lastBrightness' = L.lastBrightness
    /\ smoothedBrightness' = L.smoothedBrightness
    /\ lastAppliedDim' = L.lastAppliedDim
    /\ isChecking' = L.isChecking
    /\ siteStore' = L.siteStore
    /\ now' = L.now
    /\ scroll' = L.scroll
    /\ nSamples' = nSamples + (IF L.cyc.branch = "sample" THEN 1 ELSE 0)

\* The history after a step that left the loop in L: the configuration and
\* raw sample of the first sampling cycle; whether every configuration and
\* sample since was that one; whether every configuration loaded or used so
\* far blacklists the hostname.  steady is "none" before the first sample,
\* "steady" while nothing has differed from it, and "broken" after.
HistAfter(L) ==
    LET sampled == L.cyc.branch = "sample"
        here == [cfg |-> L.settings, raw |-> L.cyc.raw]
        same == IF sampled THEN Val(hist.first) = here
                ELSE Val(hist.first).cfg = L.settings
    IN  [hist EXCEPT
            !.steady = IF @ = "none" /\ sampled THEN "steady"
                       ELSE IF @ = "steady" /\ ~same THEN "broken"
                       ELSE @,
            !.first = IF hist.steady = "none" /\ sampled THEN Some(here)
                      ELSE IF hist.steady = "steady" /\ same THEN @
                      ELSE Null,
            !.blackOnly = @ /\ isBlacklisted(L.settings, getHostname)]

\* What a cycle under settings s may sample: a cycle that does not sample
\* reads no brightness, and is given 0.
SamplesOf(s) == IF Samples(s) THEN RawLevels ELSE {0}

\* No sample is taken beyond the model's bound.
MaySample(s) == Samples(s) => nSamples < MaxSamples

\* The script is injected: start() runs up to `await loadSettings()`.
StartCall ==
    /\ pc = "init"
    /\ pc' = "loadSettings"
    /\ ev' = Event("startCall", 0, TheMachine, NoCycle)
    /\ UNCHANGED <<bg, sync, calc, settings, animationState, sampleIntervalId, lastBrightness,
                   smoothedBrightness, lastAppliedDim, isChecking, overlay,
                   rafCallbacks, intervals, storedSettings, siteStore, now,
                   pendingReloads, pendingSiteState, scroll, nSamples, nCalls,
                   nSaves, hist>>

\* loadSettings() resolves: start() runs up to `await loadSiteState(hostname)`.
StartSettingsLoaded ==
    /\ pc = "loadSettings"
    /\ pc' = "loadSiteState"
    /\ pendingSiteState' = siteStore
    /\ LET L == [LoopState EXCEPT !.settings = loadSettings(storedSettings)] IN
       /\ CommitLoop(L)
       /\ hist' = HistAfter(L)
       /\ ev' = Event("startSettings", 0, L.m, L.cyc)
    /\ UNCHANGED <<bg, sync, calc, storedSettings, pendingReloads, nCalls, nSaves>>

\* loadSiteState() resolves: start() restores, runs its cycle, arms the timer.
StartStateLoaded(rawBrightness) ==
    /\ pc = "loadSiteState"
    /\ MaySample(settings)
    /\ pc' = "running"
    /\ pendingSiteState' = Null
    /\ LET L == startAfterLoads(LoopState, pendingSiteState, rawBrightness) IN
       /\ CommitLoop(L)
       /\ hist' = HistAfter(L)
       /\ ev' = Event("start", 0, L.m, L.cyc)
    /\ UNCHANGED <<bg, sync, calc, storedSettings, pendingReloads, nCalls, nSaves>>

\* The periodic timer fires.
TimerTick(rawBrightness) ==
    /\ intervals # {}
    /\ MaySample(settings)
    /\ LET L == checkAndDim(LoopState, rawBrightness) IN
       /\ CommitLoop(L)
       /\ hist' = HistAfter(L)
       /\ ev' = Event("checkAndDim", 0, L.m, L.cyc)
    /\ UNCHANGED <<bg, sync, calc, storedSettings, pendingReloads, pendingSiteState, nCalls,
                   nSaves, pc>>

\* visibilitychange with the document visible.
VisibilityChange(rawBrightness) ==
    /\ MaySample(settings)
    /\ LET L == checkAndDim(LoopState, rawBrightness) IN
       /\ CommitLoop(L)
       /\ hist' = HistAfter(L)
       /\ ev' = Event("checkAndDim", 0, L.m, L.cyc)
    /\ UNCHANGED <<bg, sync, calc, storedSettings, pendingReloads, pendingSiteState, nCalls,
                   nSaves, pc>>

\* background.ts saveSettings: the snapshot is written, then settingsUpdated
\* is sent to the tab, whose handler calls loadSettings().
SaveSettingsUpTo(cfg, max) ==
    /\ nSaves < max
    /\ nSaves' = nSaves + 1
    /\ storedSettings # Some(cfg)
    /\ storedSettings' = Some(cfg)
    /\ pendingReloads' = pendingReloads + 1
    /\ ev' = Event("saveSettings", 0, TheMachine, NoCycle)
    /\ UNCHANGED <<bg, sync, calc, settings, animationState, sampleIntervalId, lastBrightness,
                   smoothedBrightness, lastAppliedDim, isChecking, overlay,
                   rafCallbacks, intervals, siteStore, now, pc, pendingSiteState,
                   scroll, nSamples, nCalls, hist>>

SaveSettings(cfg) == SaveSettingsUpTo(cfg, MaxSaves)

\* The handler's loadSettings() resolves.
SettingsReloaded(rawBrightness) ==
    /\ pendingReloads > 0
    /\ MaySample(loadSettings(storedSettings))
    /\ pendingReloads' = pendingReloads - 1
    /\ LET L == onSettingsLoaded(LoopState, loadSettings(storedSettings), rawBrightness) IN
       /\ CommitLoop(L)
       /\ hist' = HistAfter(L)
       /\ ev' = Event("reload", 0, L.m, L.cyc)
    /\ UNCHANGED <<bg, sync, calc, storedSettings, pendingSiteState, nCalls, nSaves, pc>>

\* A manualDim message.
ManualDim(level) ==
    /\ nCalls < MaxManual
    /\ Cardinality(rafCallbacks) < MaxPending
    /\ nCalls' = nCalls + 1
    /\ LET L == onManualDim(LoopState, level) IN
       /\ CommitLoop(L)
       /\ ev' = Event("manualDim", level, L.m, L.cyc)
    /\ UNCHANGED <<bg, sync, calc, storedSettings, pendingReloads, pendingSiteState, nSaves, pc,
                   hist>>

\* A scroll event.
Scroll ==
    /\ LET L == onScroll(LoopState) IN
       /\ CommitLoop(L)
       /\ ev' = Event("scroll", 0, L.m, L.cyc)
    /\ UNCHANGED <<bg, sync, calc, storedSettings, pendingReloads, pendingSiteState, nCalls,
                   nSaves, pc, hist>>

\* A timeout the scroll listener set comes due and runs checkAndDim.
ScrollTimeout(rawBrightness) ==
    /\ MaySample(settings)
    /\ \E t \in scroll.pending :
          /\ t.due = now
          /\ LET L0 == [LoopState EXCEPT !.scroll.pending = @ \ {t},
                                         !.scroll.checks = @ + 1]
                 L == checkAndDim(L0, rawBrightness)
             IN  /\ CommitLoop(L)
                 /\ hist' = HistAfter(L)
                 /\ ev' = Event("scrollCheck", 0, L.m, L.cyc)
    /\ UNCHANGED <<bg, sync, calc, storedSettings, pendingReloads, pendingSiteState, nCalls,
                   nSaves, pc>>

\* Time passes, up to the next pending timeout and no further.
AdvanceTime(dt) ==
    /\ now + dt <= StartTime + MaxTime
    /\ \A t \in scroll.pending : now + dt <= t.due
    /\ LET L == [LoopState EXCEPT !.now = @ + dt] IN
       /\ CommitLoop(L)
       /\ ev' = Event("time", dt, L.m, L.cyc)
    /\ UNCHANGED <<bg, sync, calc, storedSettings, pendingReloads, pendingSiteState, nCalls,
                   nSaves, pc, hist>>

\* beforeunload: stop() runs, and the page is unloaded.
Stop ==
    /\ pc # "stopped"
    /\ pc' = "stopped"
    /\ LET L == stop(LoopState) IN
       /\ CommitLoop(L)
       /\ ev' = Event("stop", 0, L.m, L.cyc)
    /\ UNCHANGED <<bg, sync, calc, storedSettings, pendingReloads, pendingSiteState, nCalls,
                   nSaves, hist>>

\* beforeunload fires and stop() runs, but the page stays (the navigation
\* is cancelled or turns into a download): every listener, pending timeout
\* and promise continuation of the script is still there.
StopPageStays ==
    /\ pc # "stopped"
    /\ ~hist.stopped
    /\ hist' = [hist EXCEPT !.stopped = TRUE]
    /\ LET L == stop(LoopState) IN
       /\ CommitLoop(L)
       /\ ev' = Event("stop", 0, L.m, L.cyc)
    /\ UNCHANGED <<bg, sync, calc, storedSettings, pendingReloads, pendingSiteState, nCalls,
                   nSaves, pc>>

----------------------------------------------------------------------------
(* The background script's relay of popup requests to the active tab. *)

\* What chrome.tabs.query finds and what listens there: no active tab, a tab
\* with the content script attached, a tab without a receiver (sendMessage
\* rejects), or a tab whose reply is empty (sendMessage resolves undefined).
TabKinds == {"none", "attached", "detached", "silent"}

\* No request in service: the background script's state after it is loaded.
NoRequest ==
    [type |-> "none", level |-> 0, stage |-> "idle", tab |-> "none",
     reply |-> Null, responses |-> <<>>, faults |-> 0, n |-> 0]

ErrorReply(text) ==
    [kind |-> "error", error |-> text, currentDimLevel |-> 0,
     targetDimLevel |-> 0]

SuccessReply ==
    [kind |-> "success", error |-> "", currentDimLevel |-> 0,
     targetDimLevel |-> 0]

\* The content script's answer to getStatus.
StatusReply(L) ==
    [kind |-> "status", error |-> "",
     currentDimLevel |-> L.m.st.currentLevel,
     targetDimLevel |-> L.m.st.targetLevel]

\* The text of the error each of the two handlers answers with.
ErrorText(type, cause) ==
    IF cause = "noTab" THEN "No active tab"
    ELSE IF type = "getTabStatus"
    THEN (IF cause = "empty" THEN "No response from content script"
          ELSE "Content script not available on this page")
    ELSE (IF cause = "empty" THEN "No response"
          ELSE "Content script not available")

\* The message relayed to the tab.
RelayedType(type) == IF type = "getTabStatus" THEN "getStatus" ELSE "manualDim"

sendResponse(b, r) == [b EXCEPT !.responses = Append(@, r)]

\* The callback of chrome.tabs.query.
onTabsQueried(b, tab) ==
    IF tab # "none"
    THEN [b EXCEPT !.stage = "sent", !.tab = tab]
    ELSE sendResponse([b EXCEPT !.stage = "done", !.tab = tab],
                      ErrorReply(ErrorText(b.type, "noTab")))

\* The .then callback of chrome.tabs.sendMessage.
onSendResolved(b, response) ==
    sendResponse([b EXCEPT !.stage = "done"],
                 IF response # Null THEN Val(response)
                 ELSE ErrorReply(ErrorText(b.type, "empty")))

\* A plausible slip: the rejection is not caught, so it surfaces as a fault
\* and nothing is answered.
onSendRejectedUncaught(b) ==
    [b EXCEPT !.stage = "done", !.faults = @ + 1]

\* The .catch callback of chrome.tabs.sendMessage.
onSendRejected(b) ==
    sendResponse([b EXCEPT !.stage = "done"],
                 ErrorReply(ErrorText(b.type, "rejected")))

\* The popup sends getTabStatus or setManualDim: the handler issues
\* chrome.tabs.query and returns true to keep the channel open.
BgRequest(type, level) ==
    /\ bg.stage \in {"idle", "done"}
    /\ bg.n < MaxRequests
    /\ bg' = [NoRequest EXCEPT !.type = type, !.level = level,
                               !.stage = "query", !.faults = bg.faults,
                               !.n = bg.n + 1]
    /\ ev' = Event(type, level, TheMachine, NoCycle)
    /\ UNCHANGED <<animationState, overlay, rafCallbacks, loopVars, calc, nCalls>>

\* chrome.tabs.query calls back.
BgTabsQueried(tab) ==
    /\ bg.stage = "query"
    /\ bg' = onTabsQueried(bg, tab)
    /\ ev' = Event("tabsQueried", 0, TheMachine, NoCycle)
    /\ UNCHANGED <<animationState, overlay, rafCallbacks, loopVars, calc, nCalls>>

\* The content script's listener receives the relayed message and answers.
BgContentReceives ==
    /\ bg.stage = "sent"
    /\ bg.tab = "attached"
    /\ LET L == IF RelayedType(bg.type) = "manualDim"
                THEN setDimLevel(LoopState, bg.level)
                ELSE LoopState
           reply == IF RelayedType(bg.type) = "manualDim"
                    THEN SuccessReply
                    ELSE StatusReply(LoopState)
       IN
       /\ CommitLoop(L)
       /\ bg' = [bg EXCEPT !.stage = "replied", !.reply = Some(reply)]
       /\ ev' = Event(RelayedType(bg.type), bg.level, L.m, L.cyc)
    /\ UNCHANGED <<sync, calc, storedSettings, pendingReloads, pendingSiteState, nCalls,
                   nSaves, pc, hist>>

\* The promise of chrome.tabs.sendMessage resolves: with the content
\* script's reply, or with undefined.
BgSendResolved ==
    /\ \/ bg.stage = "replied"
       \/ bg.stage = "sent" /\ bg.tab = "silent"
    /\ bg' = onSendResolved(bg, bg.reply)
    /\ ev' = Event("sendResolved", 0, TheMachine, NoCycle)
    /\ UNCHANGED <<animationState, overlay, rafCallbacks, loopVars, calc, nCalls>>

\* The promise of chrome.tabs.sendMessage rejects.
BgSendRejected ==
    /\ bg.stage = "sent"
    /\ bg.tab = "detached"
    /\ bg' = onSendRejected(bg)
    /\ ev' = Event("sendRejected", 0, TheMachine, NoCycle)
    /\ UNCHANGED <<animationState, overlay, rafCallbacks, loopVars, calc, nCalls>>

BgStep ==
    \/ \E tab \in TabKinds : BgTabsQueried(tab)
    \/ BgContentReceives
    \/ BgSendResolved
    \/ BgSendRejected

----------------------------------------------------------------------------
(* saveSettings in the background script, step by step: the storage write,
   its completion callback, the broadcast and the content script's reload. *)

\* Nothing saved yet.  issued counts the chrome.storage.sync.set calls, queue
\* holds the writes not yet completed (storage completes them in order),
\* log the snapshots written so far, so version = Len(log) numbers the stored
\* one.  querying, sent and reading hold the saves whose broadcast waits for
\* chrome.tabs.query, is in flight to the tab, or whose loadSettings() is
\* pending in the content script.  lastRead records the last reload.
NoSaves ==
    [issued |-> 0, queue |-> <<>>, log |-> <<>>, querying |-> {},
     sent |-> {}, reading |-> {}, responded |-> {}, lastRead |-> Null]

storageSyncSet(s, cfg) ==
    [s EXCEPT !.issued = @ + 1,
              !.queue = Append(@, [id |-> s.issued + 1, cfg |-> cfg])]

\* The callback of chrome.storage.sync.set: query the tabs, answer the popup.
onSettingsWritten(s, id) ==
    [s EXCEPT !.querying = @ \cup {id}, !.responded = @ \cup {id}]

\* A plausible slip: the tabs are notified when the write is issued, not in
\* its completion callback.
onSaveSettingsEagerBroadcast(s, cfg) ==
    [storageSyncSet(s, cfg) EXCEPT !.querying = @ \cup {s.issued + 1}]

\* The saveSettings branch: issues the write; the rest is in its callback.
onSaveSettings(s, cfg) == storageSyncSet(s, cfg)

\* The snapshot issued last, whether written yet or not.
LastIssued ==
    IF sync.queue # <<>> THEN Some(sync.queue[Len(sync.queue)].cfg)
    ELSE storedSettings

\* The popup sends saveSettings.
SaveRequest(cfg) ==
    /\ sync.issued < MaxSyncSaves
    /\ LastIssued # Some(cfg)
    /\ sync' = onSaveSettings(sync, cfg)
    /\ ev' = Event("saveSettings", 0, TheMachine, NoCycle)
    /\ UNCHANGED <<bg, calc, settings, animationState, sampleIntervalId, lastBrightness,
                   smoothedBrightness, lastAppliedDim, isChecking, overlay,
                   rafCallbacks, intervals, storedSettings, siteStore, now, pc,
                   pendingReloads, pendingSiteState, scroll, nSamples, nCalls,
                   nSaves, hist>>

\* The oldest pending write completes and its callback runs.
StorageWritten ==
    /\ sync.queue # <<>>
    /\ LET w == Head(sync.queue) IN
       /\ storedSettings' = Some(w.cfg)
       /\ sync' = onSettingsWritten([sync EXCEPT !.queue = Tail(@),
                                                 !.log = Append(@, w.cfg)], w.id)
    /\ ev' = Event("storageWritten", 0, TheMachine, NoCycle)
    /\ UNCHANGED <<bg, calc, settings, animationState, sampleIntervalId, lastBrightness,
                   smoothedBrightness, lastAppliedDim, isChecking, overlay,
                   rafCallbacks, intervals, siteStore, now, pc, pendingReloads,
                   pendingSiteState, scroll, nSamples, nCalls, nSaves, hist>>

\* chrome.tabs.query calls back: settingsUpdated is sent to the tab.
SaveTabsQueried(id) ==
    /\ id \in sync.querying
    /\ sync' = [sync EXCEPT !.querying = @ \ {id}, !.sent = @ \cup {id}]
    /\ ev' = Event("tabsQueried", 0, TheMachine, NoCycle)
    /\ UNCHANGED <<bg, calc, settings, animationState, sampleIntervalId, lastBrightness,
                   smoothedBrightness, lastAppliedDim, isChecking, overlay,
                   rafCallbacks, intervals, storedSettings, siteStore, now, pc,
                   pendingReloads, pendingSiteState, scroll, nSamples, nCalls,
                   nSaves, hist>>

\* The content script's listener receives settingsUpdated and calls
\* loadSettings().
SettingsUpdatedReceived(id) ==
    /\ id \in sync.sent
    /\ sync' = [sync EXCEPT !.sent = @ \ {id}, !.reading = @ \cup {id}]
    /\ pendingReloads' = pendingReloads + 1
    /\ ev' = Event("settingsUpdated", 0, TheMachine, NoCycle)
    /\ UNCHANGED <<bg, calc, settings, animationState, sampleIntervalId, lastBrightness,
                   smoothedBrightness, lastAppliedDim, isChecking, overlay,
                   rafCallbacks, intervals, storedSettings, siteStore, now, pc,
                   pendingSiteState, scroll, nSamples, nCalls, nSaves, hist>>

\* The handler's loadSettings() resolves with what is stored.
SaveReloaded(id, rawBrightness) ==
    /\ id \in sync.reading
    /\ MaySample(loadSettings(storedSettings))
    /\ pendingReloads' = pendingReloads - 1
    /\ sync' = [sync EXCEPT !.reading = @ \ {id},
                            !.lastRead = Some([id |-> id,
                                               version |-> Len(sync.log),
                                               loaded |-> loadSettings(storedSettings)])]
    /\ LET L == onSettingsLoaded(LoopState, loadSettings(storedSettings), rawBrightness) IN
       /\ CommitLoop(L)
       /\ hist' = HistAfter(L)
       /\ ev' = Event("reload", 0, L.m, L.cyc)
    /\ UNCHANGED <<bg, calc, storedSettings, pendingSiteState, nCalls, nSaves, pc>>

----------------------------------------------------------------------------
(* Calls of the utility functions. *)

NoCalc == [op |-> "none", args |-> <<>>, out |-> <<>>]

\* A call of a utility function with the given arguments and result; a
\* behaviour follows one call.
Called(op, args, out) ==
    /\ calc = NoCalc
    /\ calc' = [op |-> op, args |-> args, out |-> out]
    /\ UNCHANGED <<animationState, overlay, rafCallbacks, loopVars, bg, nCalls,
                   ev>>

CallGetEffectiveSettings(s, hostname) ==
    Called("getEffectiveSettings", <<s, hostname>>,
           getEffectiveSettings(s, hostname))

CallCalculateDimAmount(brightness, threshold, maxIntensity, dynamicMode) ==
    Called("calculateDimAmount",
           <<brightness, threshold, maxIntensity, dynamicMode>>,
           calculateDimAmount(brightness, threshold, maxIntensity, dynamicMode))

CallMatchesAnyPattern(hostname, patterns) ==
    Called("matchesAnyPattern", <<hostname, patterns>>,
           matchesAnyPattern(hostname, patterns))

CallClamp(value, min, max) ==
    Called("clamp", <<value, min, max>>, clamp(value, min, max))

\* The settings the list editor works on: those of the edit before, or, at
\* first, one of the given initial settings.
EditedSettings(initial) == IF calc = NoCalc THEN initial ELSE {calc.out}

\* An edit of the blacklist or the whitelist in the settings editor.
Edited(op, s, arg, out) ==
    /\ calc' = [op |-> op, args |-> <<s, arg>>, out |-> out]
    /\ UNCHANGED <<animationState, overlay, rafCallbacks, loopVars, bg, nCalls,
                   ev>>

CallAddToBlacklist(s, hostname) ==
    Edited("addToBlacklist", s, hostname, addToBlacklist(s, hostname))

CallRemoveFromBlacklist(s, index) ==
    Edited("removeFromBlacklist", s, index, removeFromBlacklist(s, index))

CallAddToWhitelist(s, hostname) ==
    Edited("addToWhitelist", s, hostname, addToWhitelist(s, hostname))

CallRemoveFromWhitelist(s, index) ==
    Edited("removeFromWhitelist", s, index, removeFromWhitelist(s, index))

\* The document the overlay functions work on: that of the call before, or,
\* at first, a document without overlay.
CurrentDocument == IF calc = NoCalc THEN EmptyDocument ELSE calc.out.st

\* A call of an overlay function, or a step of the page, on document d.
OnDocument(op, d, ret, st) ==
    /\ calc' = [op |-> op, args |-> <<d>>, out |-> [ret |-> ret, st |-> st]]
    /\ UNCHANGED <<animationState, overlay, rafCallbacks, loopVars, bg, nCalls,
                   ev>>

CallGetOverlay ==
    LET got == getOverlayElement(CurrentDocument) IN
    /\ got.st.created <= MaxElements
    /\ OnDocument("getOverlay", CurrentDocument, got.ret, got.st)

CallApplyDimLevel(level) ==
    LET st == applyDimLevelToElement(CurrentDocument, level) IN
    /\ st.created <= MaxElements
    /\ OnDocument("applyDimLevel", CurrentDocument, level, st)

CallRemoveOverlay ==
    OnDocument("removeOverlay", CurrentDocument, 0,
               removeOverlayElement(CurrentDocument))

\* The page takes the overlay out of the document behind the script's back.
PageDetaches(e) ==
    /\ e \in CurrentDocument.doc
    /\ OnDocument("pageDetaches", CurrentDocument, e,
                  [CurrentDocument EXCEPT !.doc = @ \ {e}])

----------------------------------------------------------------------------
(* Initial states and specifications. *)

CfgSiteDisabled ==
    [DEFAULT_SETTINGS EXCEPT !.siteSettings = (getHostname :> [enabled |-> FALSE])]
CfgListedBoth ==
    [DEFAULT_SETTINGS EXCEPT !.blacklist = << <<"x">>, <<"b">> >>,
                             !.whitelist = << <<"a", "b", "c">> >>]
CfgWhiteFaint ==
    [DEFAULT_SETTINGS EXCEPT !.whitelist = << <<"a">> >>, !.dimIntensity = 400,
                             !.smoothing = FALSE, !.dynamicMode = FALSE]
CfgWhiteSite ==
    [DEFAULT_SETTINGS EXCEPT !.whitelist = << <<"a", "b">> >>,
                             !.siteSettings = (getHostname :> [dimIntensity |-> 5000])]
CfgBinary ==
    [DEFAULT_SETTINGS EXCEPT !.dynamicMode = FALSE, !.smoothing = FALSE]

\* The snapshots the settings editor saves in this model.
Configs == {CfgSiteDisabled, CfgListedBoth, CfgWhiteFaint, CfgWhiteSite,
            CfgBinary}

ManualLevels == {400, 15000}


\* What an earlier visit may have left for the hostname: nothing, or a faint
\* or a plain level saved within the last day.
InitialSiteStores ==
    {Null,
     Some(createSiteState(400, Some(9000), StartTime - 1000)),
     Some(createSiteState(3000, Some(9000), StartTime - 1000))}

InitScript ==
    /\ settings = DEFAULT_SETTINGS
    /\ animationState = createAnimationState
    /\ sampleIntervalId = Null
    /\ lastBrightness = Null
    /\ smoothedBrightness = Null
    /\ lastAppliedDim = 0
    /\ isChecking = FALSE
    /\ overlay = [attached |-> FALSE, opacity |-> 0]
    /\ rafCallbacks = {}
    /\ intervals = {}
    /\ now = StartTime
    /\ bg = NoRequest
    /\ sync = NoSaves
    /\ calc = NoCalc
    /\ pc = "init"
    /\ pendingReloads = 0
    /\ nSamples = 0
    /\ nCalls = 0
    /\ nSaves = 0
    /\ pendingSiteState = Null
    /\ scroll = NoScroll
    /\ hist = [steady |-> "none", first |-> Null, blackOnly |-> TRUE,
               stopped |-> FALSE]
    /\ ev = Event("none", 0, Machine(createAnimationState, {},
                                     [attached |-> FALSE, opacity |-> 0]), NoCycle)

Init ==
    /\ storedSettings \in {Null} \cup {Some(c) : c \in Configs}
    /\ siteStore \in InitialSiteStores
    /\ InitScript

Next ==
    \/ StartCall
    \/ StartSettingsLoaded
    \/ \E raw \in SamplesOf(settings) : StartStateLoaded(raw)
    \/ \E raw \in SamplesOf(settings) : TimerTick(raw)
    \/ \E raw \in SamplesOf(settings) : VisibilityChange(raw)
    \/ \E cfg \in Configs : SaveSettings(cfg)
    \/ \E raw \in SamplesOf(loadSettings(storedSettings)) : SettingsReloaded(raw)
    \/ \E level \in ManualLevels : ManualDim(level)
    \/ Frame

Spec == Init /\ [][Next]_vars

\* The transition engine alone, driven by any caller.
InitEngine ==
    /\ storedSettings = Null
    /\ siteStore = Null
    /\ InitScript

NextEngine ==
    \/ \E level \in EngineLevels, duration \in EngineDurations :
           CallAnimateDimLevel(level, duration)
    \/ \E level \in EngineLevels : CallSetDimLevelImmediate(level)
    \/ CallCancelAnimation
    \/ EngineFrame

SpecEngine == InitEngine /\ [][NextEngine]_vars

\* The engine left alone while a transition runs: requests and cancellations
\* come only when no frame is scheduled, and frames keep being delivered.
NextEngineQuiet ==
    \/ /\ animationState.frameId = Null
       /\ \E level \in EngineLevels, duration \in EngineDurations :
              CallAnimateDimLevel(level, duration)
    \/ /\ animationState.frameId = Null
       /\ \E level \in EngineLevels : CallSetDimLevelImmediate(level)
    \/ EngineFrame

SpecEngineLive == InitEngine /\ [][NextEngineQuiet]_vars /\ WF_vars(EngineFrame)

\* The timer's management alone: start() and the settings editor, under
\* configurations that differ in dynamicMode and mostly do not sample, so
\* that several snapshots can be saved.
CfgOffBinary == [CfgBinary EXCEPT !.enabled = FALSE]
TimerConfigs == {CfgSiteDisabled, CfgOffBinary}

InitTimer ==
    /\ storedSettings \in {Null} \cup {Some(c) : c \in TimerConfigs}
    /\ siteStore = Null
    /\ InitScript

NextTimer ==
    \/ StartCall
    \/ StartSettingsLoaded
    \/ \E raw \in SamplesOf(settings) : StartStateLoaded(raw)
    \/ \E raw \in SamplesOf(settings) : TimerTick(raw)
    \/ \E cfg \in TimerConfigs : SaveSettingsUpTo(cfg, MaxTimerSaves)
    \/ \E raw \in SamplesOf(loadSettings(storedSettings)) : SettingsReloaded(raw)
    \/ Frame

SpecTimer == InitTimer /\ [][NextTimer]_vars

\* Shutdown: the page may be unloaded at any moment of a run in which the
\* timer is managed, transitions run and the overlay is shown.
NextStop ==
    \/ /\ pc # "stopped"
       /\ \/ NextTimer
          \/ \E raw \in SamplesOf(settings) : VisibilityChange(raw)
          \/ \E level \in ManualLevels : ManualDim(level)
    \/ Stop

SpecStop == InitTimer /\ [][NextStop]_vars

\* The scroll listener with a clock: scroll events, the passing of time in
\* quarter seconds, the debounce timeout and the frames its cycles schedule.
TimeSteps == {250}

NextScroll ==
    \/ Scroll
    \/ \E dt \in TimeSteps : AdvanceTime(dt)
    \/ \E raw \in SamplesOf(settings) : ScrollTimeout(raw)
    \/ Frame

SpecScroll == InitTimer /\ [][NextScroll]_vars

\* Startup alone, on a clock, with a saved state of any age around the
\* freshness window.
SavedAges == {1000, STATE_MAX_AGE_MS - 250, STATE_MAX_AGE_MS, STATE_MAX_AGE_MS + 250}

InitStartup ==
    /\ storedSettings \in {Null, Some(CfgWhiteFaint)}
    /\ siteStore \in {Null} \cup
           {Some(createSiteState(level, Some(9000), StartTime - age)) :
                level \in {400, 3000}, age \in SavedAges}
    /\ InitScript

NextStartup ==
    \/ StartCall
    \/ StartSettingsLoaded
    \/ \E raw \in SamplesOf(settings) : StartStateLoaded(raw)
    \/ \E raw \in SamplesOf(settings) : TimerTick(raw)
    \/ \E dt \in TimeSteps : AdvanceTime(dt)
    \/ Frame

SpecStartup == InitStartup /\ [][NextStartup]_vars

\* checkAndDim as a function of the module state: called from any
\* configuration, with the guard flag free and a sample that may throw.
InitCycle ==
    /\ storedSettings = Null
    /\ bg = NoRequest
    /\ sync = NoSaves
    /\ calc = NoCalc
    /\ siteStore = Null
    /\ settings \in Configs \cup {DEFAULT_SETTINGS}
    /\ isChecking \in BOOLEAN
    /\ animationState = createAnimationState
    /\ sampleIntervalId = Null
    /\ lastBrightness = Null
    /\ smoothedBrightness = Null
    /\ lastAppliedDim = 0
    /\ overlay = [attached |-> FALSE, opacity |-> 0]
    /\ rafCallbacks = {}
    /\ intervals = {}
    /\ now = StartTime
    /\ pc = "running"
    /\ pendingReloads = 0
    /\ nSamples = 0
    /\ nCalls = 0
    /\ nSaves = 0
    /\ pendingSiteState = Null
    /\ scroll = NoScroll
    /\ hist = [steady |-> "none", first |-> Null, blackOnly |-> TRUE,
               stopped |-> FALSE]
    /\ ev = Event("none", 0, Machine(createAnimationState, {},
                                     [attached |-> FALSE, opacity |-> 0]), NoCycle)

NextCycle ==
    \/ \E raw \in RawLevels \cup {SampleThrows} : VisibilityChange(raw)
    \/ Frame

SpecCycle == InitCycle /\ [][NextCycle]_vars

\* The relay: popup requests against a content script in any configuration.
RequestTypes == {"getTabStatus", "setManualDim"}

InitBackground ==
    /\ InitCycle
    /\ isChecking = FALSE

NextBackground ==
    \/ \E type \in RequestTypes, level \in ManualLevels : BgRequest(type, level)
    \/ BgStep
    \/ Frame

SpecBackground ==
    InitBackground /\ [][NextBackground]_vars /\ WF_vars(BgStep)

\* Saving, step by step: the popup saves up to MaxSyncSaves snapshots while
\* start() runs, and each write, broadcast and reload takes its own step.
SaveIds == 1..MaxSyncSaves

NextSave ==
    \/ StartCall
    \/ StartSettingsLoaded
    \/ \E raw \in SamplesOf(settings) : StartStateLoaded(raw)
    \/ \E cfg \in TimerConfigs : SaveRequest(cfg)
    \/ StorageWritten
    \/ \E id \in SaveIds : SaveTabsQueried(id)
    \/ \E id \in SaveIds : SettingsUpdatedReceived(id)
    \/ \E id \in SaveIds, raw \in SamplesOf(loadSettings(storedSettings)) :
           SaveReloaded(id, raw)
    \/ Frame

SpecSave == InitTimer /\ [][NextSave]_vars

\* getEffectiveSettings over global settings that carry overrides for the
\* page's hostname, for a hostname contained in it, for both or for neither;
\* an override sets enabled, dimIntensity, both or nothing.
Hostnames == {getHostname, <<"a">>, <<"a", "b", "c">>, <<"x">>}
OverriddenHostnames == {getHostname, <<"a">>}
SiteOverrides ==
    {<<>>, [enabled |-> FALSE], [dimIntensity |-> 5000],
     [enabled |-> FALSE, dimIntensity |-> 800]}
SiteSettingsMaps ==
    UNION {[D -> SiteOverrides] : D \in SUBSET OverriddenHostnames}
OverrideConfigs ==
    {[g EXCEPT !.siteSettings = m] :
        g \in {DEFAULT_SETTINGS, CfgWhiteFaint}, m \in SiteSettingsMaps}

NextEffective ==
    \E s \in OverrideConfigs, hostname \in Hostnames :
        CallGetEffectiveSettings(s, hostname)

SpecEffective == InitEngine /\ [][NextEffective]_vars

\* Configurations as storage may hold them, with float fields outside
\* [0,1]: an intensity of 1.5, a site override of 2.0, a threshold of -0.2.
CfgOverIntensity == [DEFAULT_SETTINGS EXCEPT !.dimIntensity = 15000]
CfgSiteOverIntensity ==
    [CfgBinary EXCEPT !.siteSettings = (getHostname :> [dimIntensity |-> 20000])]
CfgNegativeThreshold == [DEFAULT_SETTINGS EXCEPT !.brightnessThreshold = 0 - 2000]
RangeConfigs ==
    {DEFAULT_SETTINGS, CfgOverIntensity, CfgSiteOverIntensity,
     CfgNegativeThreshold}

\* What storage may hold for the hostname: nothing, or a level of 1.5.
RangeSiteStores ==
    {Null, Some(createSiteState(15000, Some(9000), StartTime - 1000))}

InitRange ==
    /\ storedSettings \in {Some(c) : c \in RangeConfigs}
    /\ siteStore \in RangeSiteStores
    /\ InitScript

NextRange ==
    \/ StartCall
    \/ StartSettingsLoaded
    \/ \E raw \in SamplesOf(settings) : StartStateLoaded(raw)
    \/ \E raw \in SamplesOf(settings) : TimerTick(raw)
    \/ \E level \in ManualLevels : ManualDim(level)
    \/ Frame

SpecRange == InitRange /\ [][NextRange]_vars

\* calculateDimAmount over a grid of brightness values that includes each
\* threshold, the value just above it and 1.0.
Thresholds == {0, 3000, 6000, Unit - 1, Unit}
Brightnesses ==
    {k * (Unit \div 10) : k \in 0..10}
        \cup {t + 1 : t \in Thresholds \ {Unit}}
Intensities == {0, 3000, Unit}

NextDimAmount ==
    \E brightness \in Brightnesses, threshold \in Thresholds,
       maxIntensity \in Intensities, dynamicMode \in BOOLEAN :
        CallCalculateDimAmount(brightness, threshold, maxIntensity, dynamicMode)

SpecDimAmount == InitEngine /\ [][NextDimAmount]_vars

\* matchesAnyPattern over every hostname and pattern of up to MaxLen
\* characters, the empty string included, and every list of up to
\* MaxPatterns patterns.
Strings == UNION {[1..n -> {"a", "b"}] : n \in 0..MaxLen}
PatternLists == UNION {[1..n -> Strings] : n \in 0..MaxPatterns}

NextPatterns ==
    \E hostname \in Strings, patterns \in PatternLists :
        CallMatchesAnyPattern(hostname, patterns)

SpecPatterns == InitEngine /\ [][NextPatterns]_vars

\* clamp over values below, at, within, at and above each pair of limits,
\* far outside included.
ClampLimits == {0 - 5000, 0, 2500, Unit}
ClampValues ==
    {0 - 1000 * Unit, 0 - 5001, 0 - 5000, 0 - 1, 0, 1, 2499, 2500, 2501,
     Unit - 1, Unit, Unit + 1, 15000, 1000 * Unit}

NextClamp ==
    \E value \in ClampValues, min \in ClampLimits, max \in ClampLimits :
        CallClamp(value, min, max)

SpecClamp == InitEngine /\ [][NextClamp]_vars

\* The list editor: any sequence of additions and removals, from lists
\* without duplicates, of hostnames of which one is part of another, and with
\* indexes inside and outside the list.
ListNames == {<<"a">>, <<"a", "b">>, <<"b">>}
ListIndexes == (0 - 1)..Cardinality(ListNames)
InitialLists == {<<>>, << <<"a", "b">> >>, << <<"b">>, <<"a">> >>}
InitialListSettings ==
    {[DEFAULT_SETTINGS EXCEPT !.blacklist = b, !.whitelist = w] :
        b \in InitialLists, w \in InitialLists}

NextLists ==
    \E s \in EditedSettings(InitialListSettings) :
        \/ \E hostname \in ListNames : CallAddToBlacklist(s, hostname)
        \/ \E index \in ListIndexes : CallRemoveFromBlacklist(s, index)
        \/ \E hostname \in ListNames : CallAddToWhitelist(s, hostname)
        \/ \E index \in ListIndexes : CallRemoveFromWhitelist(s, index)

SpecLists == InitEngine /\ [][NextLists]_vars

\* The overlay functions in any order, on a page that may detach the
\* overlay at any time.
NextOverlay ==
    \/ CallGetOverlay
    \/ \E level \in {3000, 15000} : CallApplyDimLevel(level)
    \/ CallRemoveOverlay
    \/ \E e \in 1..MaxElements : PageDetaches(e)

SpecOverlay == InitEngine /\ [][NextOverlay]_vars

\* Shutdown while the page stays: stop() runs once, at any moment, and the
\* script's events (load continuations, timers, reloads, visibility
\* changes, manual requests, frames) can still arrive afterwards.
InitUnload ==
    /\ storedSettings = Null
    /\ siteStore = Null
    /\ InitScript

NextUnload ==
    \/ StartCall
    \/ StartSettingsLoaded
    \/ \E raw \in SamplesOf(settings) : StartStateLoaded(raw)
    \/ \E raw \in SamplesOf(settings) : TimerTick(raw)
    \/ SaveSettingsUpTo(CfgOffBinary, MaxSaves)
    \/ \E raw \in SamplesOf(loadSettings(storedSettings)) : SettingsReloaded(raw)
    \/ \E raw \in SamplesOf(settings) : VisibilityChange(raw)
    \/ \E level \in ManualLevels : ManualDim(level)
    \/ Frame
    \/ StopPageStays

SpecUnload == InitUnload /\ [][NextUnload]_vars

----------------------------------------------------------------------------
(* Properties. *)

Percent(n) == (n * Unit) \div 100

\* The dimIntensity in force for the hostname: the site's override if it has
\* one, the global value otherwise.
EffectiveDimIntensity ==
    IF /\ getHostname \in DOMAIN settings.siteSettings
       /\ "dimIntensity" \in DOMAIN settings.siteSettings[getHostname]
    THEN settings.siteSettings[getHostname].dimIntensity
    ELSE settings.dimIntensity

\* C1: after a cycle that found the effective configuration disabled or the
\* hostname blacklisted, and lastAppliedDim non-zero on entry, the engine's
\* targetLevel is 0 and lastAppliedDim is 0.
C1_OffCycleTargetsZero ==
    (ev.cyc.branch = "off" /\ ev.cyc.prevApplied # 0)
        => (animationState.targetLevel = 0 /\ lastAppliedDim = 0)

\* C2: a hostname blacklisted in every configuration the loop has loaded or
\* used is never dimmed from start() onward: the overlay is absent or its
\* opacity is 0.  Stated for runs without a manualDim request.
C2_BlacklistedNeverDimmed ==
    (pc # "init" /\ hist.blackOnly /\ nCalls = 0)
        => (~overlay.attached \/ overlay.opacity = 0)

\* C3: a sampling cycle (enabled, not blacklisted) on a whitelisted hostname
\* computes the effective dimIntensity as its target, whatever brightness
\* it sampled.
C3_WhitelistedTargetIsIntensity ==
    (ev.cyc.branch = "sample" /\ isWhitelisted(settings, getHostname))
        => ev.cyc.target = EffectiveDimIntensity

C3_Witness ==
    /\ ev.cyc.branch = "sample"
    /\ isWhitelisted(settings, getHostname)
    /\ ev.cyc.raw = 0
    /\ ev.cyc.prevSmoothed # Null
    /\ settings.siteSettings # <<>>
    /\ ev.cyc.target = 5000

\* C4: a sampling cycle requests a transition to its target, sets
\* lastAppliedDim to it and saves the site state exactly when the target is
\* at least 0.03 away from lastAppliedDim; otherwise it requests nothing,
\* leaves lastAppliedDim and the engine's target alone and saves nothing.
C4_UpdateIffSignificant ==
    [][ev'.cyc.branch = "sample" =>
          LET cyc == ev'.cyc IN
          IF Abs(cyc.target - cyc.prevApplied) >= Percent(3)
          THEN /\ ev'.req = 1
               /\ lastAppliedDim' = cyc.target
               /\ cyc.saved
               /\ siteStore' = Some([lastDimLevel |-> animationState'.currentLevel,
                                     lastBrightness |-> Some(cyc.raw),
                                     timestamp |-> now'])
          ELSE /\ ev'.req = 0
               /\ lastAppliedDim' = cyc.prevApplied
               /\ animationState'.targetLevel = cyc.prevTarget
               /\ ~cyc.saved
               /\ siteStore' = siteStore
       ]_vars

C4_Witness ==
    /\ ev.cyc.branch = "sample"
    /\ ev.cyc.target # ev.cyc.prevApplied
    /\ Abs(ev.cyc.target - ev.cyc.prevApplied) < Percent(3)
    /\ ev.req = 0
    /\ lastAppliedDim = ev.cyc.prevApplied

\* C5: a sampling cycle records the raw sample as lastBrightness; its
\* smoothed brightness is the raw sample on the first sample and
\* 0.3 * raw + 0.7 * previous afterwards; the dim policy is evaluated on the
\* smoothed value.
C5_SmoothingRecurrence ==
    ev.cyc.branch = "sample" =>
        LET eff == getEffectiveSettings(settings, getHostname) IN
        /\ lastBrightness = Some(ev.cyc.raw)
        /\ smoothedBrightness # Null
        /\ IF ev.cyc.prevSmoothed = Null
           THEN Val(smoothedBrightness) = ev.cyc.raw
           ELSE 10 * Val(smoothedBrightness)
                    = 3 * ev.cyc.raw + 7 * Val(ev.cyc.prevSmoothed)
        /\ ~isWhitelisted(settings, getHostname) =>
               ev.cyc.target = calculateDimAmount(Val(smoothedBrightness),
                                   eff.brightnessThreshold, eff.dimIntensity,
                                   eff.dynamicMode)

C5_Witness ==
    /\ ev.cyc.branch = "sample"
    /\ ev.cyc.prevSmoothed # Null
    /\ Val(ev.cyc.prevSmoothed) # ev.cyc.raw
    /\ ~isWhitelisted(settings, getHostname)
    /\ LET eff == getEffectiveSettings(settings, getHostname) IN
       ev.cyc.target # calculateDimAmount(ev.cyc.raw, eff.brightnessThreshold,
                                          eff.dimIntensity, eff.dynamicMode)

\* C6: with the configuration unchanged and the same raw brightness on
\* every sample since the first, a sampling cycle after the first requests
\* no transition, saves nothing, and leaves targetLevel and lastAppliedDim
\* as it found them.
C6_SteadyCyclesChangeNothing ==
    (ev.cyc.branch = "sample" /\ hist.steady = "steady" /\ nSamples >= 2)
        => /\ ev.req = 0
           /\ ~ev.cyc.saved
           /\ lastAppliedDim = ev.cyc.prevApplied
           /\ animationState.targetLevel = ev.cyc.prevTarget

C9_AnimationReachesTarget ==
    /\ [][(ev'.kind = "animateDimLevel" /\ ev'.sched = 1)
             => animationState'.targetLevel = clamp(ev'.level, 0, Unit)]_vars
    /\ [][ev'.kind = "frame"
             => animationState'.targetLevel = animationState.targetLevel]_vars
    /\ (animationState.frameId # Null)
           ~> /\ animationState.frameId = Null
              /\ animationState.currentLevel = animationState.targetLevel

C9_Witness ==
    /\ ev.kind = "frame"
    /\ ev.level = 1000
    /\ animationState.frameId = Null
    /\ animationState.targetLevel = Percent(50)
    /\ animationState.currentLevel = Percent(50)
    /\ rafCallbacks = {}

\* C10: at most one frame callback is scheduled at a time, it is the one
\* frameId names and belongs to the latest accepted request, and no frame
\* callback of a superseded animation ever runs.
C10_OneLiveCallback ==
    /\ Cardinality(rafCallbacks) <= 1
    /\ \A cb \in rafCallbacks : ~cb.stale /\ animationState.frameId = Some(cb.id)
    /\ ev.kind = "frame" => ~ev.stale

C10_Witness ==
    /\ ev.kind = "animateDimLevel"
    /\ ev.canc = 1
    /\ ev.sched = 1
    /\ Cardinality(rafCallbacks) = 1
    /\ animationState.currentLevel \notin {0, animationState.targetLevel}

\* C11: setDimLevelImmediate leaves frameId null with no frame scheduled,
\* sets currentLevel and targetLevel to the clamped level, and invokes
\* onUpdate exactly once, with that value.
C11_ImmediateSetsBoth ==
    ev.kind = "setDimLevelImmediate" =>
        LET c == IF ev.level < 0 THEN 0 ELSE IF ev.level > Unit THEN Unit ELSE ev.level IN
        /\ animationState = [frameId |-> Null, currentLevel |-> c, targetLevel |-> c]
        /\ rafCallbacks = {}
        /\ ev.upd = <<c>>
        /\ overlay = [attached |-> TRUE, opacity |-> c]

C11_Witness ==
    /\ ev.kind = "setDimLevelImmediate"
    /\ ev.canc = 1
    /\ ev.level > Unit
    /\ animationState.currentLevel = Unit

\* C12: whenever no animation is in flight (frameId is null), currentLevel
\* equals targetLevel.
C12_IdleImpliesSettled ==
    animationState.frameId = Null
        => animationState.currentLevel = animationState.targetLevel

\* C13: a call of checkAndDim made while isChecking is true changes
\* nothing; any other call leaves isChecking false on every exit path: the
\* disabled/blacklisted return, the normal path, and a thrown exception.
C13_SingleFlightGuard ==
    [][ev'.cyc.branch # "none" =>
          IF isChecking
          THEN /\ ev'.cyc.branch = "busy"
               /\ UNCHANGED <<settings, animationState, sampleIntervalId,
                              lastBrightness, smoothedBrightness, lastAppliedDim,
                              isChecking, overlay, rafCallbacks, intervals,
                              siteStore, nSamples>>
          ELSE /\ ev'.cyc.branch \in {"off", "sample", "threw"}
               /\ isChecking' = FALSE
      ]_vars

C13_Witness ==
    /\ ev.cyc.branch = "threw"
    /\ ~isChecking
    /\ nSamples > 0

\* C14: when start() finds a fresh saved state with a positive level, it
\* applies that level before any brightness sample has been taken and
\* without animation: no frame is scheduled, and its cycle finds
\* lastAppliedDim and targetLevel at the saved level, the overlay having
\* been given it; with no such state its cycle finds the state untouched.
C14_RestoreBeforeFirstSample ==
    [][ev'.kind = "start" =>
          LET savedState == loadSiteState(pendingSiteState, now) IN
          IF savedState # Null /\ Val(savedState).lastDimLevel > 0
          THEN /\ nSamples = 0
               /\ animationState.frameId = Null
               /\ ev'.cyc.prevApplied = Val(savedState).lastDimLevel
               /\ ev'.cyc.prevTarget = Val(savedState).lastDimLevel
               /\ Head(ev'.upd) = Val(savedState).lastDimLevel
          ELSE /\ ev'.cyc.prevApplied = lastAppliedDim
               /\ ev'.cyc.prevTarget = animationState.targetLevel
      ]_vars

\* C15: once start() has completed and every settingsUpdated reload has
\* been processed, a periodic timer is live exactly when the effective
\* dynamicMode is true; and start() runs its cycle in the step that arms
\* the timer.
C15_TimerIffDynamicMode ==
    /\ (pc = "running" /\ pendingReloads = 0)
           => ((intervals # {})
                 <=> getEffectiveSettings(settings, getHostname).dynamicMode)
    /\ ev.kind = "start" => ev.cyc.branch \in {"off", "sample"}

\* C16: when stop() returns, sampleIntervalId is null and the timer it
\* named is cleared, no animation frame is scheduled (frameId is null), and
\* no overlay element is attached.
C16_StopClearsEverything ==
    [][ev'.kind = "stop" =>
          /\ sampleIntervalId' = Null
          /\ sampleIntervalId # Null => Val(sampleIntervalId) \notin intervals'
          /\ animationState'.frameId = Null
          /\ rafCallbacks' = {}
          /\ ~overlay'.attached
      ]_vars

C16_Witness ==
    /\ ev.kind = "stop"
    /\ ev.canc = 1
    /\ animationState.currentLevel \notin {0, animationState.targetLevel}
    /\ nSamples > 0
    /\ ~overlay.attached

\* C17: at most one scroll timeout is pending, the one scrollTimeout
\* names, due 500 ms after the last scroll event; a timeout runs its
\* checkAndDim exactly 500 ms after the last scroll event; and every burst
\* of scroll events (each less than 500 ms after the one before) has run
\* exactly one checkAndDim or has its one timeout pending.
C17_ScrollDebounced ==
    /\ Cardinality(scroll.pending) <= 1
    /\ \A t \in scroll.pending :
           /\ scroll.timeout = Some(t.id)
           /\ t.due = Val(scroll.last) + 500
    /\ ev.kind = "scrollCheck" =>
           /\ now = Val(scroll.last) + 500
           /\ ev.cyc.branch \in {"off", "sample"}
    /\ scroll.checks + Cardinality(scroll.pending) = scroll.bursts

C17_Witness ==
    /\ ev.kind = "scrollCheck"
    /\ scroll.bursts = 1
    /\ scroll.checks = 1
    /\ now = StartTime + 750

C19_FreshnessWindow ==
    [][ev'.kind = "start" =>
          LET fresh == /\ pendingSiteState # Null
                       /\ now - Val(pendingSiteState).timestamp < 24 * 60 * 60 * 1000
          IN  /\ loadSiteState(pendingSiteState, now)
                     = IF fresh THEN pendingSiteState ELSE Null
              /\ IF fresh
                 THEN /\ ev'.cyc.prevApplied = Val(pendingSiteState).lastDimLevel
                      /\ Head(ev'.upd) = Val(pendingSiteState).lastDimLevel
                 ELSE /\ ev'.cyc.prevApplied = 0
                      /\ ev'.cyc.prevTarget = 0
      ]_vars

C19_Witness ==
    /\ ev.kind = "start"
    /\ ev.cyc.prevApplied = 0
    /\ siteStore # Null
    /\ now - Val(siteStore).timestamp = STATE_MAX_AGE_MS
    /\ now > StartTime

\* C20: every getTabStatus or setManualDim request to the background
\* script is answered exactly once: with the content script's reply when
\* the active tab has one attached, otherwise with an explicit error (no
\* active tab, the send rejected, or an empty reply); no fault is raised and
\* no request is left without its response.
C20_ExactlyOneResponse ==
    /\ [](/\ bg.faults = 0
          /\ Len(bg.responses) <= 1
          /\ bg.stage \in {"query", "sent", "replied"} => bg.responses = <<>>
          /\ bg.stage = "done" =>
                /\ Len(bg.responses) = 1
                /\ IF bg.tab = "attached"
                   THEN /\ bg.responses[1] = Val(bg.reply)
                        /\ bg.responses[1].kind =
                               (IF bg.type = "getTabStatus" THEN "status"
                                ELSE "success")
                   ELSE /\ bg.responses[1].kind = "error"
                        /\ bg.responses[1].error =
                               ErrorText(bg.type,
                                         CASE bg.tab = "none" -> "noTab"
                                           [] bg.tab = "silent" -> "empty"
                                           [] OTHER -> "rejected"))
    /\ (bg.stage = "query") ~> (bg.stage = "done" /\ Len(bg.responses) = 1)

C20_Witness ==
    /\ bg.stage = "done"
    /\ bg.n = MaxRequests
    /\ bg.tab = "attached"
    /\ bg.type = "getTabStatus"
    /\ bg.responses = <<StatusReply(LoopState)>>
    /\ bg.responses[1].targetDimLevel > 0

\* C21: settingsUpdated is sent only after the storage write of the saved
\* snapshot has completed: a save whose broadcast or reload is under way has
\* been written, and the reload it triggers loads the snapshot of that write
\* or of a later one, never an earlier one.
C21_BroadcastAfterWrite ==
    /\ \A id \in sync.querying \cup sync.sent \cup sync.reading :
           id <= Len(sync.log)
    /\ sync.lastRead # Null =>
           LET r == Val(sync.lastRead) IN
           /\ r.version >= r.id
           /\ r.loaded = loadSettings(Some(sync.log[r.version]))

C21_Witness ==
    /\ sync.lastRead # Null
    /\ Val(sync.lastRead).id = 1
    /\ Val(sync.lastRead).version = MaxSyncSaves
    /\ settings = loadSettings(Some(sync.log[MaxSyncSaves]))
    /\ sync.log[1] # sync.log[MaxSyncSaves]

\* C22: getEffectiveSettings(settings, hostname) is the global settings
\* with exactly the fields the override of that very hostname defines replaced
\* by the override's values; without an override for the hostname, a
\* partially matching one included, it is the global settings.
C22_OverrideReplacesItsFields ==
    calc.op = "getEffectiveSettings" =>
        LET s == calc.args[1]
            hostname == calc.args[2]
        IN  IF hostname \in DOMAIN s.siteSettings
            THEN /\ DOMAIN calc.out = DOMAIN s
                 /\ \A f \in DOMAIN s :
                        calc.out[f] =
                            IF f \in DOMAIN s.siteSettings[hostname]
                            THEN s.siteSettings[hostname][f]
                            ELSE s[f]
            ELSE calc.out = s

C22_Witness ==
    /\ calc.op = "getEffectiveSettings"
    /\ calc.args[2] = getHostname
    /\ calc.args[1].siteSettings = (getHostname :> [dimIntensity |-> 5000])
    /\ calc.args[1].dimIntensity = 400
    /\ calc.out.dimIntensity = 5000
    /\ calc.out.enabled

\* C23: the float configuration fields are clamped to [0,1] before use:
\* in every policy evaluation the dimIntensity and brightnessThreshold in
\* force lie in [0,1] whatever the loaded configuration or the site override
\* contain, and so do the computed target and lastAppliedDim.
C23_FloatFieldsClamped ==
    /\ lastAppliedDim \in 0..Unit
    /\ ev.cyc.branch = "sample" =>
           /\ ev.cyc.target \in 0..Unit
           /\ getEffectiveSettings(settings, getHostname).dimIntensity \in 0..Unit
           /\ getEffectiveSettings(settings, getHostname).brightnessThreshold
                  \in 0..Unit

\* C24: the opacity written to the overlay is always in [0,1]: whatever
\* level a caller passes (a cycle, an animation frame, the startup restore, a
\* manual request), the overlay's opacity after the call is
\* clamp(level, 0, 1).
C24_OpacityIsClampedLevel ==
    /\ [](overlay.opacity \in 0..Unit)
    /\ [][ev'.upd # <<>> =>
              /\ overlay'.attached
              /\ overlay'.opacity = clamp(ev'.upd[Len(ev'.upd)], 0, Unit)]_vars

C24_Witness ==
    /\ ev.kind = "start"
    /\ ev.upd # <<>>
    /\ ev.upd[Len(ev.upd)] > Unit
    /\ overlay.attached
    /\ overlay.opacity = Unit

\* C25: calculateDimAmount returns exactly 0 whenever brightness <=
\* threshold, in dynamic and in binary mode and for every maxIntensity, with
\* brightness equal to the threshold and threshold = 1 included.
C25_ZeroAtOrBelowThreshold ==
    (calc.op = "calculateDimAmount" /\ calc.args[1] <= calc.args[2])
        => calc.out = 0

C25_Witness ==
    /\ calc.op = "calculateDimAmount"
    /\ calc.args = <<Unit, Unit, Unit, FALSE>>
    /\ calc.out = 0

\* C26: with dynamicMode false, calculateDimAmount returns exactly
\* maxIntensity for every brightness strictly above the threshold, however
\* small the excess.
C26_BinaryIsMaxIntensity ==
    (/\ calc.op = "calculateDimAmount"
     /\ ~calc.args[4]
     /\ calc.args[1] > calc.args[2])
        => calc.out = calc.args[3]

C26_Witness ==
    /\ calc.op = "calculateDimAmount"
    /\ calc.args = <<6001, 6000, 3000, FALSE>>
    /\ calc.out = 3000

\* C27: with dynamicMode true and threshold < 1, calculateDimAmount is
\* non-decreasing in brightness over (threshold, 1], is
\* maxIntensity * (brightness - threshold) / (1 - threshold) (to the
\* resolution of the fixed point), and is maxIntensity exactly at
\* brightness = 1.
C27_DynamicScalesLinearly ==
    (/\ calc.op = "calculateDimAmount"
     /\ calc.args[4]
     /\ calc.args[2] < Unit
     /\ calc.args[1] > calc.args[2])
        => LET brightness == calc.args[1]
               threshold == calc.args[2]
               maxIntensity == calc.args[3]
               exact == maxIntensity * (brightness - threshold)
           IN  /\ calc.out * (Unit - threshold) <= exact
               /\ exact < (calc.out + 2) * (Unit - threshold)
               /\ brightness = Unit => calc.out = maxIntensity
               /\ \A b \in Brightnesses :
                      (threshold < b /\ b <= brightness) =>
                          calculateDimAmount(b, threshold, maxIntensity, TRUE)
                              <= calc.out

C27_Witness ==
    /\ calc.op = "calculateDimAmount"
    /\ calc.args = <<8000, 6000, 3000, TRUE>>
    /\ calc.out = 1500

\* s contains p: s is p with something before and something after it.
Contains(s, p) == \E pre \in Strings, suf \in Strings : s = pre \o p \o suf

\* C28: a pattern list matches a hostname if and only if some pattern is
\* non-empty, the hostname is non-empty, and one of the two contains the
\* other; the relation of a hostname and one pattern is symmetric, and the
\* empty list never matches.
C28_ListMatchesIffSomeContains ==
    calc.op = "matchesAnyPattern" =>
        LET hostname == calc.args[1]
            patterns == calc.args[2]
        IN  /\ calc.out =
                   (\E k \in 1..Len(patterns) :
                        /\ patterns[k] # <<>>
                        /\ hostname # <<>>
                        /\ \/ Contains(hostname, patterns[k])
                           \/ Contains(patterns[k], hostname))
            /\ \A k \in 1..Len(patterns) :
                   matchesPattern(hostname, patterns[k])
                       = matchesPattern(patterns[k], hostname)
            /\ patterns = <<>> => ~calc.out

C28_Witness ==
    /\ calc.op = "matchesAnyPattern"
    /\ calc.args[1] = <<"a">>
    /\ calc.args[2] = << <<"b">>, <<"b", "a", "b">> >>
    /\ calc.out

\* C29: clamp(v, lo, hi) with lo <= hi is in [lo, hi] for every v, is v
\* itself when v is already in [lo, hi], and clamping its result again
\* changes nothing.
C29_ClampInRangeAndIdempotent ==
    (calc.op = "clamp" /\ calc.args[2] <= calc.args[3]) =>
        LET v == calc.args[1]
            lo == calc.args[2]
            hi == calc.args[3]
        IN  /\ lo <= calc.out /\ calc.out <= hi
            /\ (lo <= v /\ v <= hi) => calc.out = v
            /\ clamp(calc.out, lo, hi) = calc.out

C29_Witness ==
    /\ calc.op = "clamp"
    /\ calc.args = <<15000, 0, Unit>>
    /\ calc.out = Unit

NoDuplicates(list) ==
    \A i, j \in 1..Len(list) : list[i] = list[j] => i = j

\* The list without its entry at the 0-based index, if it has one.
WithoutIndex(list, index) ==
    IF index \in 0..(Len(list) - 1)
    THEN SubSeq(list, 1, index) \o SubSeq(list, index + 2, Len(list))
    ELSE list

\* C30: from lists without duplicates, every sequence of additions and
\* removals keeps the blacklist and the whitelist free of duplicates: adding
\* a hostname already present returns the settings unchanged, adding a new
\* one appends it after the existing entries, and removing by index deletes
\* exactly that entry and keeps the order of the rest.
C30_ListsStayDuplicateFree ==
    calc.op \in {"addToBlacklist", "removeFromBlacklist", "addToWhitelist",
                 "removeFromWhitelist"} =>
        LET s == calc.args[1]
            arg == calc.args[2]
            black == calc.op \in {"addToBlacklist", "removeFromBlacklist"}
            before == IF black THEN s.blacklist ELSE s.whitelist
            after == IF black THEN calc.out.blacklist ELSE calc.out.whitelist
            expected ==
                IF calc.op \in {"addToBlacklist", "addToWhitelist"}
                THEN (IF \E k \in 1..Len(before) : before[k] = arg
                      THEN before ELSE before \o <<arg>>)
                ELSE WithoutIndex(before, arg)
        IN  /\ NoDuplicates(calc.out.blacklist)
            /\ NoDuplicates(calc.out.whitelist)
            /\ after = expected
            /\ calc.out = IF black THEN [s EXCEPT !.blacklist = expected]
                          ELSE [s EXCEPT !.whitelist = expected]

C30_Witness ==
    /\ calc.op = "addToBlacklist"
    /\ calc.args[1].blacklist = << <<"a">>, <<"a", "b">> >>
    /\ calc.args[2] = <<"a">>
    /\ calc.out.blacklist = << <<"a">>, <<"a", "b">> >>

\* C31: getOverlay is idempotent: without a removal in between, a repeated
\* call returns the same element; after any sequence of getOverlay,
\* applyDimLevel and removeOverlay calls at most one element with the
\* overlay's id is attached; a newly created overlay has opacity 0 and does
\* not intercept pointer input.
C31_OneOverlayElement ==
    calc.op \in {"getOverlay", "applyDimLevel", "removeOverlay", "pageDetaches"}
        => LET before == calc.args[1]
               after == calc.out.st
           IN  /\ Cardinality(after.doc) <= 1
               /\ calc.op = "getOverlay" =>
                      /\ after.doc = {calc.out.ret}
                      /\ after.overlayElement = Some(calc.out.ret)
                      /\ getOverlayElement(after) = calc.out
                      /\ before.doc # {} => after = before
                      /\ before.doc = {} =>
                             /\ calc.out.ret \notin 1..before.created
                             /\ after.style[calc.out.ret] =
                                    [opacity |-> 0, pointerEvents |-> "none"]
               /\ calc.op = "removeOverlay" =>
                      after.doc = {} /\ after.overlayElement = Null
               /\ \A e \in 1..after.created :
                      after.style[e].pointerEvents = "none"

C31_Witness ==
    /\ calc.op = "getOverlay"
    /\ calc.args[1].overlayElement = Some(1)
    /\ calc.args[1].doc = {}
    /\ calc.args[1].style[1].opacity = Unit
    /\ calc.out.ret = 2
    /\ calc.out.st.doc = {2}
    /\ calc.out.st.style[2].opacity = 0

\* C32: whenever a cycle saves the per-site state, the saved lastDimLevel
\* is the engine's currentLevel at that moment, right after the transition
\* request, lastBrightness is that cycle's raw sample, and the state is
\* stored under the page's hostname.
C32_SavedStateIsCurrentLevelAndRaw ==
    [][ev'.cyc.saved =>
          /\ siteStore' # Null
          /\ Val(siteStore').lastDimLevel = animationState'.currentLevel
          /\ Val(siteStore').lastBrightness = Some(ev'.cyc.raw)
          /\ Val(siteStore').timestamp = now'
          /\ ev'.cyc.key = getHostname]_vars

C32_Witness ==
    /\ ev.cyc.saved
    /\ ev.kind = "checkAndDim"
    /\ animationState.frameId # Null
    /\ Val(siteStore).lastDimLevel > 0
    /\ Val(siteStore).lastDimLevel # animationState.targetLevel
    /\ Val(siteStore).lastBrightness = Some(ev.cyc.raw)

\* C33: once a cycle of this run has saved the per-site state and the
\* transition it requested has settled, with the overlay at the level the
\* last cycle applied, the lastDimLevel persisted for the hostname is the
\* level the overlay settled at, whether smoothing is on or off.
C33_PersistedLevelIsSettledLevel ==
    (/\ siteStore # Null
     /\ Val(siteStore).timestamp >= StartTime
     /\ animationState.frameId = Null
     /\ animationState.currentLevel = animationState.targetLevel
     /\ lastAppliedDim = animationState.targetLevel)
    => Val(siteStore).lastDimLevel = animationState.currentLevel

\* C34: in a run without manual dim requests, after every completed cycle
\* whose computed target lies in [0,1] (0 on the disabled-or-blacklisted
\* branch), lastAppliedDim equals the transition engine's targetLevel.
C34_AppliedIsEngineTarget ==
    (/\ ev.cyc.branch \in {"sample", "off"}
     /\ ev.cyc.target >= 0
     /\ ev.cyc.target <= Unit)
    => lastAppliedDim = animationState.targetLevel

\* C35: at most one periodic sampling timer is live at any time, and every
\* live timer is the one sampleIntervalId names (no handle is overwritten
\* without being cleared), under every interleaving of start()'s loads
\* with the settingsUpdated reloads.
C35_AtMostOneTimer ==
    /\ Cardinality(intervals) <= 1
    /\ \A id \in intervals : sampleIntervalId = Some(id)

\* C36: once stop() has run, no later event runs a cycle, re-creates the
\* overlay or arms a periodic timer.
C36_StoppedStaysStopped ==
    [][hist.stopped =>
          /\ ev'.cyc.branch = "none"
          /\ overlay'.attached => overlay.attached
          /\ intervals' \subseteq intervals
      ]_vars

\* C37: a cycle that takes the disabled-or-blacklisted branch takes no
\* brightness sample, leaves smoothedBrightness and lastBrightness as they
\* were and saves no per-site state; smoothedBrightness is absent until the
\* first cycle that samples, only a sampling cycle sets it, and nothing
\* resets it to absent afterwards.
C37_DisabledBranchShortCircuits ==
    /\ [](nSamples = 0 => smoothedBrightness = Null)
    /\ [][/\ ev'.cyc.branch = "off" =>
                /\ nSamples' = nSamples
                /\ smoothedBrightness' = smoothedBrightness
                /\ lastBrightness' = lastBrightness
                /\ siteStore' = siteStore
                /\ ~ev'.cyc.saved
          /\ smoothedBrightness # Null => smoothedBrightness' # Null
          /\ smoothedBrightness' # smoothedBrightness => ev'.cyc.branch = "sample"
        ]_vars

C37_Witness ==
    /\ ev.cyc.branch = "off"
    /\ ev.cyc.prevApplied # 0
    /\ lastAppliedDim = 0
    /\ smoothedBrightness # Null
    /\ lastBrightness # Null
    /\ siteStore # Null

\* C38: handling a manualDim message leaves lastAppliedDim,
\* smoothedBrightness, lastBrightness, the configuration snapshot, the
\* periodic timer and the persisted per-site state unchanged; and a
\* sampling cycle whose policy target is within 0.03 of lastAppliedDim
\* (as the cycle finds it; start() restores before its cycle) leaves the
\* transition state, the scheduled frames and the overlay, and so a
\* manually requested level, as they were.
C38_ManualDimTouchesOnlyTransition ==
    [][/\ ev'.kind = "manualDim" =>
             /\ lastAppliedDim' = lastAppliedDim
             /\ smoothedBrightness' = smoothedBrightness
             /\ lastBrightness' = lastBrightness
             /\ settings' = settings
             /\ sampleIntervalId' = sampleIntervalId
             /\ intervals' = intervals
             /\ siteStore' = siteStore
       /\ (/\ ev'.cyc.branch = "sample"
           /\ ~changeIsSignificant(ev'.cyc.target, ev'.cyc.prevApplied)) =>
             /\ animationState'.targetLevel = ev'.cyc.prevTarget
             /\ lastAppliedDim' = ev'.cyc.prevApplied
             /\ ev'.kind # "start" =>
                   /\ animationState' = animationState
                   /\ rafCallbacks' = rafCallbacks
                   /\ overlay' = overlay
      ]_vars

\* A cycle has applied a level and saved it, a manual request has moved the
\* engine elsewhere, and a later sampling cycle has left it there.
C38_Witness ==
    /\ nCalls > 0
    /\ ev.cyc.branch = "sample"
    /\ ~ev.cyc.saved
    /\ siteStore # Null
    /\ lastAppliedDim > 0
    /\ animationState.targetLevel # lastAppliedDim
    /\ animationState.targetLevel = clamp(15000, 0, Unit)

\* C39: in every reachable state the transition state's currentLevel and
\* targetLevel lie in [0,1], after the startup restore of a persisted
\* lastDimLevel included; and every animation frame leaves targetLevel
\* alone and moves currentLevel toward it, never away from it and never
\* past it.
C39_LevelsInRangeAndMonotone ==
    /\ [](/\ animationState.currentLevel \in 0..Unit
          /\ animationState.targetLevel \in 0..Unit)
    /\ [][ev'.kind = "frame" =>
             /\ animationState'.targetLevel = animationState.targetLevel
             /\ animationState'.currentLevel >=
                    Min(animationState.currentLevel, animationState.targetLevel)
             /\ animationState'.currentLevel <=
                    Max(animationState.currentLevel, animationState.targetLevel)
       ]_vars

====
